---- MODULE Spec2Model ----
(***************************************************************************)
(* PIDA event pipeline: timeline engine, event bus, alert dispatcher and   *)
(* session producer, modelled from src/agent.                              *)
(*                                                                         *)
(* Each component has its own specification (SpecEngine, SpecBus,          *)
(* SpecDispatch, SpecSession); a specification leaves the variables of the *)
(* other components unchanged.                                             *)
(***************************************************************************)
EXTENDS Integers, Sequences, FiniteSets, TLC

VARIABLES
    \* ---- timeline engine (engine/timeline.py) and store (db/database.py)
    away_windows,   \* TimelineEngine._away_windows
    has_on_alert,   \* TimelineEngine._on_alert is not None
    store_events,   \* ids of the rows of table timeline_events
    store_alerts,   \* rows of table alerts, in insertion order
    on_alert_calls, \* alerts the on_alert callback was invoked with, in order
    eng,            \* the running _handle_event invocation
    n_handled,      \* events handed to _handle_event so far
    next_alert      \* number of Alert objects constructed so far

engVars == <<away_windows, has_on_alert, store_events, store_alerts,
             on_alert_calls, eng, n_handled, next_alert>>

VARIABLES
    \* ---- event bus (engine/event_bus.py)
    maxsize,        \* the maxsize EventBus was constructed with (0: unbounded)
    queue,          \* EventBus._queue: the events waiting for dispatch
    putters,        \* the publishers suspended in queue.put, in arrival order
    pub,            \* per publisher: where its publish call stands
    subscribers,    \* EventBus._subscribers
    running,        \* EventBus._running
    task_ref,       \* EventBus._task (0: None)
    tasks,          \* the dispatch tasks created so far, by number
    stops,          \* the tasks a pending stop() awaits
    n_published,    \* publish calls so far; the n-th call carries event n
    accepted,       \* the events put on the queue, in that order
    delivered,      \* per subscriber: the events it was invoked with, in order
    failures,       \* <<event, subscriber>>: the subscriber raised on the event
    cut             \* events whose dispatch a stop() cancelled

busVars == <<maxsize, queue, putters, pub, subscribers, running, task_ref, tasks,
             stops, n_published, accepted, delivered, failures, cut>>

VARIABLES
    \* ---- alert dispatcher (alerts/dispatcher.py)
    routes,         \* AlertDispatcher._routes
    disp,           \* the running dispatch call
    in_flight       \* per calling coroutine, its dispatch call

dispVars == <<routes, disp, in_flight>>

VARIABLES
    \* ---- session producer (monitors/session_monitor.py)
    clock,          \* datetime.now(timezone.utc), in ticks
    evlog,          \* the records of the OS event logs, oldest first
    last_read_time, \* SessionMonitor._last_read_time
    sess_running,   \* SessionMonitor._running
    sess,           \* the polling task: its position and locals
    sess_published, \* the log records published as events, in order
    log_oracle      \* "native": the OS event log can be read; "missing": not

sessVars == <<clock, evlog, last_read_time, sess_running, sess, sess_published,
              log_oracle>>

VARIABLES
    \* ---- store (db/database.py), table alerts
    db_alerts,      \* the rows of table alerts, by id
    db_ret,         \* the last store call: its number, name, id and result
    db_prev         \* the store call before it

storeVars == <<db_alerts, db_ret, db_prev>>

VARIABLES
    \* ---- a call of _is_within_away_window (monitors/input_monitor.py)
    win_now,        \* the argument now
    win_list,       \* the argument windows
    win             \* whether the call has returned, and its result

winVars == <<win_now, win_list, win>>

VARIABLES
    \* ---- email notifier (alerts/email_notifier.py)
    throttle,       \* EmailNotifier._throttle, in ticks
    mail_now,       \* datetime.now(timezone.utc), in ticks from 1
    last_sent,      \* EmailNotifier._last_sent (NoneValue: None)
    pending,        \* EmailNotifier._pending: the alerts waiting, by number
    sending,        \* the _send_batch calls suspended in the SMTP send
    sent,           \* the batches of the messages the SMTP server took
    n_notified,     \* notify calls so far; the n-th call carries alert n
    mail_severity,  \* alert.severity.value of the alerts passed to notify
    mail_msg        \* msg of the latest _send_batch, while it is in the send

mailVars == <<throttle, mail_now, last_sent, pending, sending, sent, n_notified,
              mail_severity, mail_msg>>

\* ---- monitors/input_monitor.py: InputMonitor ----
VARIABLES
    poll_interval,     \* InputMonitor._poll_interval, in seconds
    streak_threshold,  \* InputMonitor._streak_threshold, in seconds
    idle_oracle,       \* "native": _get_idle reads the OS or an injected function;
                       \* "sentinel": the always-idle lambda
    input_windows,     \* InputMonitor._away_windows
    active_streak,     \* InputMonitor._active_streak
    input_running,     \* InputMonitor._running, with its poll task alive
    input_sampled,     \* the samples the poll loop took, oldest first
    input_published,   \* the events the poll loop published, oldest first
    input_started      \* how many events were published before the last start

inputVars == <<poll_interval, streak_threshold, idle_oracle, input_windows,
               active_streak, input_running, input_sampled, input_published,
               input_started>>

\* ---- models/alert.py, models/config.py: construction of a record ----
VARIABLES
    made    \* the last record construction: its class, its arguments, what it raised

cfgVars == <<made>>

\* ---- monitors/folder_monitor.py: FolderMonitor ----
VARIABLES
    fm_folders,     \* FolderMonitor._folders
    fm_running,     \* FolderMonitor._running
    fm_observers,   \* the observers created so far: state, scheduled watches
    fm_observer,    \* FolderMonitor._observer: its place in fm_observers, 0: None
    fm_tasks,       \* the drain tasks created so far: position, event held
    fm_drain_task,  \* FolderMonitor._drain_task: its place in fm_tasks, 0: None
    fm_stopping,    \* stop is suspended in `await self._drain_task`
    fm_callbacks,   \* the put_nowait calls scheduled on the loop, oldest first
    fm_bridge,      \* FolderMonitor._bridge_queue
    fm_published,   \* the events the drain task published, oldest first
    fm_handed,      \* how many events the watcher handed to _enqueue
    fm_last,        \* the last primitive the watcher reported, the event built
    fm_calls        \* the start and stop calls made: how many, and the last

folderVars == <<fm_folders, fm_running, fm_observers, fm_observer, fm_tasks,
                fm_drain_task, fm_stopping, fm_callbacks, fm_bridge,
                fm_published, fm_handed, fm_last, fm_calls>>

\* ---- main.py: lifespan; api/routes.py: the settings API ----
VARIABLES
    sup_pc,           \* where lifespan stands: its phase and its next step
    sup_folders,      \* folder_paths is not empty
    sup_log,          \* the start and stop calls lifespan made, in order
    db_away_windows,  \* the row 'away_windows' of table settings, as a list
    sup_posted,       \* a POST /config/away-windows has returned
    sup_eval          \* the last away-window test of the engine or the
                      \* input producer: who, for which instant, the answer

supVars == <<sup_pc, sup_folders, sup_log, db_away_windows, sup_posted, sup_eval>>

\* ---- api/routes.py: the WebSocket clients ----
VARIABLES
    ws_clients,   \* _ws_clients
    ws_conn,      \* per client, its connection: "new", "open", "closed" by the
                  \* peer with the handler still in receive_text, or "gone"
    bc            \* the running broadcast_event call: its position, the list
                  \* iterator, `dead`, who was connected when it began and
                  \* who got the frame

wsVars == <<ws_clients, ws_conn, bc>>

vars == <<engVars, busVars, dispVars, sessVars, storeVars, winVars, mailVars,
    inputVars, cfgVars, folderVars, supVars, wsVars>>

\* the variables of the other components, which a component's step leaves alone
notEng == <<busVars, dispVars, sessVars, storeVars, winVars, mailVars,
    inputVars, cfgVars, folderVars, supVars, wsVars>>
notBus == <<engVars, dispVars, sessVars, storeVars, winVars, mailVars,
    inputVars, cfgVars, folderVars, supVars, wsVars>>
notDisp == <<engVars, busVars, sessVars, storeVars, winVars, mailVars,
    inputVars, cfgVars, folderVars, supVars, wsVars>>
notSess == <<engVars, busVars, dispVars, storeVars, winVars, mailVars,
    inputVars, cfgVars, folderVars, supVars, wsVars>>
notStore == <<engVars, busVars, dispVars, sessVars, winVars, mailVars,
    inputVars, cfgVars, folderVars, supVars, wsVars>>
notWin == <<engVars, busVars, dispVars, sessVars, storeVars, mailVars,
    inputVars, cfgVars, folderVars, supVars, wsVars>>
notMail == <<engVars, busVars, dispVars, sessVars, storeVars, winVars,
    inputVars, cfgVars, folderVars, supVars, wsVars>>
notInput == <<engVars, busVars, dispVars, sessVars, storeVars, winVars,
    mailVars, cfgVars, folderVars, supVars, wsVars>>
notCfg == <<engVars, busVars, dispVars, sessVars, storeVars, winVars,
    mailVars, inputVars, folderVars, supVars, wsVars>>
notFolder == <<engVars, busVars, dispVars, sessVars, storeVars, winVars,
    mailVars, inputVars, cfgVars, supVars, wsVars>>
notSup == <<engVars, busVars, dispVars, sessVars, storeVars, winVars,
    mailVars, inputVars, cfgVars, folderVars, wsVars>>
notWs == <<engVars, busVars, dispVars, sessVars, storeVars, winVars,
    mailVars, inputVars, cfgVars, folderVars, supVars>>

(***************************************************************************)
(* Bounds                                                                  *)
(***************************************************************************)
MaxEvents == 1       \* events handed to the engine in one run
MaxPublished == 3    \* publish calls on the bus in one run
MaxPublishers == 2   \* producers publishing concurrently
MaxQueueSize == 2    \* the largest maxsize a bounded bus is constructed with
MaxTasks == 2        \* dispatch tasks created (start calls that start) in one run
MaxRoutes == 3       \* routes registered with the dispatcher
MaxDispatches == 1   \* dispatch calls in one run
MaxClock == 3        \* the last tick of the clock
MaxRecords == 2      \* records written to the OS event logs in one run
MaxAlerts == 2       \* alert ids known to the callers of the store
MaxInstant == 2      \* the last instant a snooze may name
MaxStoreCalls == 3   \* calls of the store in one run
MaxNotified == 3     \* notify calls on the email notifier in one run
MaxThrottle == 1     \* the longest throttle interval, in ticks
MaxMailClock == 2    \* the last tick of the email notifier's clock
MaxEngineStarts == 2  \* start calls of the engine without a stop between
MaxCallers == 2      \* coroutines that call dispatch side by side
MaxWatched == 3      \* events the folder watcher hands over
MaxFolderCalls == 3  \* start and stop calls of the folder producer
MaxClients == 3      \* WebSocket clients that ever connect
MaxSamples == 4      \* passes of the input producer's poll loop in one run

(***************************************************************************)
(* Values.  A Python value kept in a detail mapping is tagged with its     *)
(* type, so that a str never equals an int, as in Python.                  *)
(***************************************************************************)
HexV(n) == <<"hex", n>>     \* the n-th uuid4().hex[:12] drawn (a str)
IntV(n) == <<"int", n>>
StrV(s) == <<"str", s>>

\* {**a, **b}: the keys of b override those of a
DictMerge(a, b) ==
    [k \in (DOMAIN a) \cup (DOMAIN b) |-> IF k \in DOMAIN b THEN b[k] ELSE a[k]]

EmptyDict == [k \in {} |-> StrV("")]

\* a file path, as its directory and its last component; "" is NoPath
Path(parent, name) == <<parent, name>>
Parent(p) == p[1]
NoPath == Path("", "")

(***************************************************************************)
(* models/alert.py                                                         *)
(***************************************************************************)
Severity == {"INFO", "LOW", "MEDIUM", "HIGH", "CRITICAL"}

SEVERITY_ORDER ==
    [s \in Severity |->
        CASE s = "INFO" -> 0
          [] s = "LOW" -> 1
          [] s = "MEDIUM" -> 2
          [] s = "HIGH" -> 3
          [] s = "CRITICAL" -> 4]

(***************************************************************************)
(* models/event.py                                                         *)
(***************************************************************************)
\* as FileActions, with the RDP session counted as a file action
FileActionsAndRdp ==
    {"file_created", "file_modified", "file_deleted", "file_renamed", "file_moved",
     "session_rdp"}

\* the actions rule 1 of _evaluate lists
FileActions ==
    {"file_created", "file_modified", "file_deleted", "file_renamed", "file_moved"}

EventAction ==
    FileActions \cup
    {"input_detected", "idle_started", "active_during_away",
     "session_logon", "session_logoff", "session_lock", "session_unlock",
     "session_rdp", "login_failed", "system_wake", "system_sleep"}

TimelineEvent(id, source, category, action, target, detail, severity, timestamp) ==
    [id |-> id, source |-> source, category |-> category, action |-> action,
     target |-> target, detail |-> detail, severity |-> severity,
     timestamp |-> timestamp]

(***************************************************************************)
(* models/config.py: AwayWindow; an instant is a weekday (0 = Monday) and  *)
(* a wall-clock time, the parts of a datetime the window test reads.       *)
(***************************************************************************)
AwayWindow(sh, sm, eh, em, days, enabled) ==
    [start_hour |-> sh, start_minute |-> sm, end_hour |-> eh, end_minute |-> em,
     days |-> days, enabled |-> enabled]

Instant(wd, h, m) == [weekday |-> wd, hour |-> h, minute |-> m]

AllDays == 0..6

\* the windows the away-window lists of the model are built from
OfficeHours == AwayWindow(9, 0, 17, 0, 0..4, TRUE)     \* Mon-Fri 09:00-17:00
Overnight == AwayWindow(23, 0, 6, 0, AllDays, TRUE)    \* wraps midnight
SwitchedOff == AwayWindow(0, 0, 23, 59, AllDays, FALSE)

\* the away-window lists the engine is configured with
WindowLists ==
    {<<>>, <<OfficeHours>>, <<Overnight>>, <<SwitchedOff>>,
     <<OfficeHours, Overnight>>}

\* the instants events of the model are stamped with
InstantSamples ==
    {Instant(0, 9, 0),     \* Monday 09:00
     Instant(5, 23, 30)}   \* Saturday 23:30

(***************************************************************************)
(* monitors/input_monitor.py: _is_within_away_window                       *)
(***************************************************************************)
\* as _is_within_away_window, with the start of a same-day window excluded
WindowStartExcluded(now, windows) ==
    LET weekday == now.weekday
        t == now.hour * 60 + now.minute
    IN \E i \in 1..Len(windows) :
          LET w == windows[i]
              start == w.start_hour * 60 + w.start_minute
              end == w.end_hour * 60 + w.end_minute
          IN /\ weekday \in w.days
             /\ IF start <= end
                   THEN start < t /\ t < end
                   ELSE t >= start \/ t < end

\* as _is_within_away_window, with the end of a same-day window included
WindowEndIncluded(now, windows) ==
    LET weekday == now.weekday
        t == now.hour * 60 + now.minute
    IN \E i \in 1..Len(windows) :
          LET w == windows[i]
              start == w.start_hour * 60 + w.start_minute
              end == w.end_hour * 60 + w.end_minute
          IN /\ weekday \in w.days
             /\ IF start <= end
                   THEN start <= t /\ t <= end
                   ELSE t >= start \/ t < end

_is_within_away_window(now, windows) ==
    LET weekday == now.weekday
        t == now.hour * 60 + now.minute
    IN \E i \in 1..Len(windows) :
          LET w == windows[i]
              start == w.start_hour * 60 + w.start_minute
              end == w.end_hour * 60 + w.end_minute
          IN /\ weekday \in w.days
             /\ IF start <= end
                   THEN start <= t /\ t < end
                   ELSE t >= start \/ t < end

(***************************************************************************)
(* The TimelineEvent each producer constructs.                             *)
(***************************************************************************)
\* monitors/folder_monitor.py: _ACTION_MAP
_ACTION_MAP ==
    [k \in {"created", "modified", "deleted"} |->
        CASE k = "created" -> "file_created"
          [] k = "modified" -> "file_modified"
          [] k = "deleted" -> "file_deleted"]

\* FolderMonitor._bridge
FolderBridgeEvent(id, action_key, path, ts) ==
    TimelineEvent(id, "folder_monitor", "file_system", _ACTION_MAP[action_key],
                  path, EmptyDict, "INFO", ts)

\* _Handler.on_moved
FolderMovedEvent(id, src, dest, ts) ==
    TimelineEvent(id, "folder_monitor", "file_system",
                  IF Parent(src) = Parent(dest) THEN "file_renamed" ELSE "file_moved",
                  dest, [src_path |-> StrV(src), dest_path |-> StrV(dest)],
                  "INFO", ts)

\* InputMonitor._poll_loop: the three events it constructs
InputAwayEvent(id, idle, streak, ts) ==
    TimelineEvent(id, "input_monitor", "user_input", "active_during_away", NoPath,
                  [idle_seconds |-> IntV(idle), streak_seconds |-> IntV(streak)],
                  "MEDIUM", ts)

InputDetectedEvent(id, idle, ts) ==
    TimelineEvent(id, "input_monitor", "user_input", "input_detected", NoPath,
                  [idle_seconds |-> IntV(idle)], "INFO", ts)

IdleStartedEvent(id, streak, ts) ==
    TimelineEvent(id, "input_monitor", "user_input", "idle_started", NoPath,
                  [last_active_streak |-> IntV(streak)], "INFO", ts)

\* monitors/session_monitor.py: the three event-id tables
_SECURITY_EVENTS ==
    [e \in {4624, 4625, 4800, 4801} |->
        CASE e = 4624 -> "session_logon"
          [] e = 4625 -> "login_failed"
          [] e = 4800 -> "session_lock"
          [] e = 4801 -> "session_unlock"]

_SYSTEM_EVENTS ==
    [e \in {1, 42, 107} |->
        CASE e = 1 -> "system_wake"
          [] e = 42 -> "system_sleep"
          [] e = 107 -> "system_wake"]

_RDP_EVENTS ==
    [e \in {21, 23, 24, 25} |->
        CASE e = 21 -> "session_rdp"
          [] e = 23 -> "session_logoff"
          [] e = 24 -> "session_rdp"
          [] e = 25 -> "session_rdp"]

\* _SECURITY_EVENTS.get(eid) or _SYSTEM_EVENTS.get(eid) or _RDP_EVENTS.get(eid)
SessionAction(eid) ==
    IF eid \in DOMAIN _SECURITY_EVENTS THEN _SECURITY_EVENTS[eid]
    ELSE IF eid \in DOMAIN _SYSTEM_EVENTS THEN _SYSTEM_EVENTS[eid]
    ELSE IF eid \in DOMAIN _RDP_EVENTS THEN _RDP_EVENTS[eid]
    ELSE "none"

\* SessionMonitor._poll_loop: the TimelineEvent built from one raw record
SessionEvent(id, eid, src, msg, ts) ==
    LET action == SessionAction(eid)
        severity == IF action = "login_failed" THEN "HIGH"
                    ELSE IF action = "session_rdp" THEN "MEDIUM"
                    ELSE "INFO"
    IN TimelineEvent(id, "session_monitor",
                     IF action \notin {"system_wake", "system_sleep"}
                        THEN "session" ELSE "system",
                     action, NoPath,
                     [event_id |-> IntV(eid), source |-> StrV(src),
                      message |-> StrV(msg)],
                     severity, ts)

\* the events the producers can hand to the bus, with identifier id
EventsAt(id, ts) ==
    {FolderBridgeEvent(id, k, Path("/docs", "a.txt"), ts) : k \in DOMAIN _ACTION_MAP}
    \cup {FolderMovedEvent(id, Path("/docs", "a.txt"), Path("/docs", "b.txt"), ts),
          FolderMovedEvent(id, Path("/docs", "a.txt"), Path("/tmp", "a.txt"), ts),
          InputAwayEvent(id, 0, 10, ts),
          InputDetectedEvent(id, 0, ts),
          IdleStartedEvent(id, 5, ts)}
    \cup {SessionEvent(id, eid, "Security", "m", ts) : eid \in DOMAIN _SECURITY_EVENTS}
    \cup {SessionEvent(id, eid, "System", "m", ts) : eid \in DOMAIN _SYSTEM_EVENTS}
    \cup {SessionEvent(id, eid, "RDP", "m", ts) : eid \in DOMAIN _RDP_EVENTS}

ProducedEvents(id) == UNION {EventsAt(id, ts) : ts \in InstantSamples}

(***************************************************************************)
(* engine/timeline.py: TimelineEngine                                      *)
(***************************************************************************)
EventId(n) == HexV(2 * n)       \* TimelineEvent.id of the n-th event
AlertId(n) == HexV(2 * n + 1)   \* Alert.id of the n-th alert

Alert(severity, message, source, detail) ==
    [severity |-> severity, message |-> message, source |-> source,
     detail |-> detail]

Message(text, action, target) == [text |-> text, action |-> action, target |-> target]

\* TimelineEngine._evaluate, without the ids of the alerts it constructs
_evaluate(event, windows) ==
    LET now == event.timestamp
        in_away == IF windows # <<>> THEN _is_within_away_window(now, windows)
                   ELSE FALSE
        rule1 == IF event.action \in FileActions /\ in_away
                 THEN <<Alert("HIGH",
                              Message("File {action} during away window: {target}",
                                      event.action, event.target),
                              event.source,
                              [event_id |-> event.id, target |-> StrV(event.target)])>>
                 ELSE <<>>
        rule2 == IF event.action = "active_during_away"
                 THEN <<Alert("MEDIUM",
                              Message("Keyboard/mouse activity detected during away window",
                                      "", NoPath),
                              event.source,
                              DictMerge([event_id |-> event.id], event.detail))>>
                 ELSE <<>>
        rule3 == IF event.action = "login_failed"
                 THEN <<Alert("HIGH",
                              Message("Failed login attempt detected", "", NoPath),
                              event.source,
                              DictMerge([event_id |-> event.id], event.detail))>>
                 ELSE <<>>
        rule4 == IF event.action = "session_rdp" /\ in_away
                 THEN <<Alert("CRITICAL",
                              Message("Remote Desktop session during away window",
                                      "", NoPath),
                              event.source,
                              DictMerge([event_id |-> event.id], event.detail))>>
                 ELSE <<>>
    IN rule1 \o rule2 \o rule3 \o rule4

\* the Alert objects of one evaluation, each with its fresh id
WithIds(alerts, n) ==
    [i \in 1..Len(alerts) |->
        [id |-> AlertId(n + i)] @@ alerts[i]]

\* the try/except blocks of _handle_event: which step's exception is caught
CatchesInsertEvent == TRUE
InsertAlertUncaught == FALSE    \* as CatchesInsertAlert, the try block left out
CatchesInsertAlert == TRUE
CatchesOnAlert == TRUE

Step(step, k, ok) == [step |-> step, k |-> k, ok |-> ok]

NoEvent == TimelineEvent(EventId(0), "", "", "", NoPath, EmptyDict, "", Instant(0, 0, 0))

EngIdle == [pc |-> "idle", event |-> NoEvent, alerts |-> <<>>, k |-> 0, trace |-> <<>>]

\* the bus invokes _handle_event(event): it runs up to `await db.insert_event`
_handle_event(event) ==
    /\ eng.pc \in {"idle", "raised"}
    /\ n_handled < MaxEvents
    /\ n_handled' = n_handled + 1
    /\ eng' = [pc |-> "insert_event", event |-> event, alerts |-> <<>>, k |-> 0,
               trace |-> <<>>]
    /\ UNCHANGED <<away_windows, has_on_alert, store_events, store_alerts,
                   on_alert_calls, next_alert>>
    /\ UNCHANGED notEng

\* db.insert_event: a single-row write; it fails on a duplicate primary key
\* or on an I/O error (ok = FALSE)
InsertEventOk(event, ok) == ok /\ event.id \notin store_events

\* as AfterAlert, going to on_alert for the next alert without its insert
AfterAlertNoInsert(e, k) ==
    IF k < Len(e.alerts)
       THEN [e EXCEPT !.pc = "on_alert", !.k = k + 1]
       ELSE [e EXCEPT !.pc = "idle"]

\* where the handler goes once alert k is done with: the next alert, or return
AfterAlert(e, k) ==
    IF k < Len(e.alerts)
       THEN [e EXCEPT !.pc = "insert_alert", !.k = k + 1]
       ELSE [e EXCEPT !.pc = "idle"]

\* `await db.insert_event` ends; then _evaluate runs and the loop begins
InsertEventDone(ok) ==
    /\ eng.pc = "insert_event"
    /\ LET done == InsertEventOk(eng.event, ok)
           t1 == Append(eng.trace, Step("insert_event", 0, done))
       IN IF ~done /\ ~CatchesInsertEvent
          THEN /\ eng' = [eng EXCEPT !.pc = "raised", !.trace = t1]
               /\ UNCHANGED <<store_events, next_alert>>
          ELSE LET alerts == WithIds(_evaluate(eng.event, away_windows), next_alert)
                   e1 == [eng EXCEPT !.alerts = alerts,
                                     !.trace = Append(t1, Step("evaluate", 0, TRUE))]
               IN /\ store_events' = IF done THEN store_events \cup {eng.event.id}
                                     ELSE store_events
                  /\ next_alert' = next_alert + Len(alerts)
                  /\ eng' = AfterAlert(e1, 0)
    /\ UNCHANGED <<away_windows, has_on_alert, store_alerts, on_alert_calls, n_handled>>
    /\ UNCHANGED notEng

\* db.insert_alert: as insert_event, on table alerts
InsertAlertOk(alert, ok) ==
    ok /\ \A i \in 1..Len(store_alerts) : store_alerts[i].id # alert.id

\* `await db.insert_alert` ends; then on_alert is called, if there is one
InsertAlertDone(ok) ==
    /\ eng.pc = "insert_alert"
    /\ LET alert == eng.alerts[eng.k]
           done == InsertAlertOk(alert, ok)
           e1 == [eng EXCEPT !.trace = Append(@, Step("insert_alert", eng.k, done))]
       IN IF ~done /\ ~CatchesInsertAlert
          THEN /\ eng' = [e1 EXCEPT !.pc = "raised"]
               /\ UNCHANGED store_alerts
          ELSE /\ store_alerts' = IF done THEN Append(store_alerts, alert)
                                  ELSE store_alerts
               /\ eng' = IF has_on_alert THEN [e1 EXCEPT !.pc = "on_alert"]
                         ELSE AfterAlert(e1, eng.k)
    /\ UNCHANGED <<away_windows, has_on_alert, store_events, on_alert_calls,
                   n_handled, next_alert>>
    /\ UNCHANGED notEng

\* `await self._on_alert(alert)` ends, normally (ok) or by raising
OnAlertDone(ok) ==
    /\ eng.pc = "on_alert"
    /\ LET alert == eng.alerts[eng.k]
           e1 == [eng EXCEPT !.trace = Append(@, Step("on_alert", eng.k, ok))]
       IN /\ on_alert_calls' = Append(on_alert_calls, alert.id)
          /\ eng' = IF ~ok /\ ~CatchesOnAlert THEN [e1 EXCEPT !.pc = "raised"]
                    ELSE AfterAlert(e1, eng.k)
    /\ UNCHANGED <<away_windows, has_on_alert, store_events, store_alerts,
                   n_handled, next_alert>>
    /\ UNCHANGED notEng

\* TimelineEngine.set_away_windows
set_away_windows(windows) ==
    /\ away_windows' = windows
    /\ UNCHANGED <<has_on_alert, store_events, store_alerts, on_alert_calls, eng,
                   n_handled, next_alert>>
    /\ UNCHANGED notEng

\* an engine that has handled nothing, on an empty store
EngineFresh ==
    /\ store_events = {}
    /\ store_alerts = <<>>
    /\ on_alert_calls = <<>>
    /\ eng = EngIdle
    /\ n_handled = 0
    /\ next_alert = 0

InitEngine ==
    /\ away_windows \in WindowLists
    /\ has_on_alert \in BOOLEAN
    /\ EngineFresh

NextEngine ==
    \/ \E event \in ProducedEvents(EventId(n_handled + 1)) : _handle_event(event)
    \/ \E ok \in BOOLEAN : InsertEventDone(ok)
    \/ \E ok \in BOOLEAN : InsertAlertDone(ok)
    \/ \E ok \in BOOLEAN : OnAlertDone(ok)
    \/ \E windows \in WindowLists \ {away_windows} : set_away_windows(windows)

(***************************************************************************)
(* Claims on the timeline engine                                           *)
(***************************************************************************)
\* the rule table of the specification
Rules == {"R1", "R2", "R3", "R4"}

\* instant t lies in window w: on a listed weekday, in [start, end) by minute,
\* or, for start > end, from start to midnight or from midnight to end
LiesInWindow(t, w) ==
    LET m == 60 * t.hour + t.minute
        s == 60 * w.start_hour + w.start_minute
        e == 60 * w.end_hour + w.end_minute
    IN /\ t.weekday \in w.days
       /\ \/ s < e /\ s <= m /\ m < e
          \/ s > e /\ (m >= s \/ m < e)

LiesInSomeWindow(t, ws) == \E i \in DOMAIN ws : LiesInWindow(t, ws[i])

RuleHolds(r, ev, ws) ==
    CASE r = "R1" -> /\ ev.action \in {"file_created", "file_modified", "file_deleted",
                                      "file_renamed", "file_moved"}
                     /\ LiesInSomeWindow(ev.timestamp, ws)
      [] r = "R2" -> ev.action = "active_during_away"
      [] r = "R3" -> ev.action = "login_failed"
      [] r = "R4" -> ev.action = "session_rdp" /\ LiesInSomeWindow(ev.timestamp, ws)

RuleSeverity(r) ==
    CASE r = "R1" -> "HIGH" [] r = "R2" -> "MEDIUM" [] r = "R3" -> "HIGH"
      [] r = "R4" -> "CRITICAL"

\* the rule an alert comes from, read off its message
RuleOf(alert) ==
    CASE alert.message.text = "File {action} during away window: {target}" -> "R1"
      [] alert.message.text = "Keyboard/mouse activity detected during away window" -> "R2"
      [] alert.message.text = "Failed login attempt detected" -> "R3"
      [] alert.message.text = "Remote Desktop session during away window" -> "R4"
      [] OTHER -> "none"

\* the step of _handle_event on which the rules are evaluated
EvaluatedNow == eng.pc = "insert_event" /\ eng'.pc \in {"insert_alert", "idle"}

\* C1: the alerts one evaluation produces are, one for one, the rules whose
\* condition holds on the event under the away-window list of that moment,
\* each with the rule's severity; no rule holds, no alert; with an empty list
\* neither R1 nor R4 fires.
C1_AlertsAreFiredRules ==
    [][EvaluatedNow =>
        LET fired == {r \in Rules : RuleHolds(r, eng.event, away_windows)}
            produced == eng'.alerts
        IN /\ Len(produced) = Cardinality(fired)
           /\ \A r \in fired :
                 \E i \in DOMAIN produced :
                    RuleOf(produced[i]) = r /\ produced[i].severity = RuleSeverity(r)
           /\ \A i \in DOMAIN produced : RuleOf(produced[i]) \in fired
           /\ away_windows = <<>> =>
                 \A i \in DOMAIN produced : RuleOf(produced[i]) \notin {"R1", "R4"}
    ]_vars

\* an RDP event inside the overnight window has produced its CRITICAL alert
C1_Witness ==
    /\ eng.pc = "idle"
    /\ eng.event.action = "session_rdp"
    /\ Len(eng.alerts) = 1
    /\ eng.alerts[1].severity = "CRITICAL"
    /\ RuleOf(eng.alerts[1]) = "R4"

\* an event with the given action and instant, its other fields empty
EventWith(action, ts) ==
    TimelineEvent(EventId(1), "", "", action, NoPath, EmptyDict, "", ts)

\* C38 as claimed: there is an event for which more than one rule fires, and
\* the alerts it produces all carry its id (under the windows in effect or
\* any other list).
C38_SeveralRulesFire ==
    \E action \in EventAction, ts \in InstantSamples,
       windows \in WindowLists \cup {away_windows} :
        LET alerts == _evaluate(EventWith(action, ts), windows)
        IN /\ Len(alerts) > 1
           /\ \A k \in DOMAIN alerts : alerts[k].detail["event_id"] = EventId(1)

\* C38, amended: the four rules are tested one after the other, each on its
\* own, but each asks for a different action, so at most one fires: an
\* event of any action, at any instant, under any window list, produces no
\* alert or exactly one.
C38_AtMostOneRuleFires ==
    /\ Len(eng.alerts) <= 1
    /\ \A action \in EventAction, ts \in InstantSamples, windows \in WindowLists :
          Len(_evaluate(EventWith(action, ts), windows)) <= 1

\* An active_during_away event inside an away window was evaluated: rule 2
\* fired, and nothing else.
C38_Witness ==
    /\ eng.pc = "insert_alert"
    /\ eng.event.action = "active_during_away"
    /\ away_windows # <<>>
    /\ _is_within_away_window(eng.event.timestamp, away_windows)
    /\ Len(eng.alerts) = 1
    /\ RuleOf(eng.alerts[1]) = "R2"

\* C2: every alert the engine created carries the id of the event that
\* triggered it in detail.event_id; and when no event insert failed, every
\* alert in the store refers to an event in the store.
C2_AlertNamesItsEvent ==
    /\ \A k \in DOMAIN eng.alerts : eng.alerts[k].detail["event_id"] = eng.event.id
    /\ (\A n \in 1..n_handled : EventId(n) \in store_events) =>
          \A i \in DOMAIN store_alerts :
             store_alerts[i].detail["event_id"] \in store_events

\* the names of the steps a trace went through
StepNames(trace) == [i \in DOMAIN trace |-> <<trace[i].step, trace[i].k>>]

RECURSIVE AlertSteps(_, _, _)
AlertSteps(k, n, callback) ==
    IF k > n THEN <<>>
    ELSE <<(<<"insert_alert", k>>)>>
         \o (IF callback THEN <<(<<"on_alert", k>>)>> ELSE <<>>)
         \o AlertSteps(k + 1, n, callback)

Returned == eng.pc = "idle" /\ n_handled > 0

\* C7: _handle_event never raises, and whichever of its steps fail, it goes
\* through all of them: insert_event, the evaluation, and for every alert
\* insert_alert then on_alert.
C7_StepFailuresIsolated ==
    /\ eng.pc # "raised"
    /\ Returned =>
          StepNames(eng.trace) =
             <<(<<"insert_event", 0>>), (<<"evaluate", 0>>)>>
             \o AlertSteps(1, Len(eng.alerts), has_on_alert)
    /\ eng.pc \in {"insert_alert", "on_alert"} =>
          \E i \in DOMAIN eng.trace : eng.trace[i].step = "evaluate"

Failed(step) == \E i \in DOMAIN eng.trace : eng.trace[i].step = step /\ ~eng.trace[i].ok

\* the handler has returned after all three of its steps failed
C7_Witness ==
    /\ Returned
    /\ Failed("insert_event") /\ Failed("insert_alert") /\ Failed("on_alert")
    /\ Len(eng.alerts) = 1

\* the positions of the trace at which a step was attempted for alert k (0 for
\* the event)
Attempts(step, k) ==
    {i \in DOMAIN eng.trace : eng.trace[i].step = step /\ eng.trace[i].k = k}

\* C26: the event insert is attempted before the rules are evaluated, and for
\* each alert its insert is attempted before on_alert is invoked with it; so
\* an alert of the event in hand is in the store or was handed to on_alert
\* only after the insert of the event was attempted, and was handed to
\* on_alert only after its own insert was attempted.
C26_InsertsAttemptedFirst ==
    /\ \A i \in Attempts("evaluate", 0) :
          \E j \in Attempts("insert_event", 0) : j < i
    /\ \A k \in DOMAIN eng.alerts :
          /\ \A i \in Attempts("on_alert", k) :
                \E j \in Attempts("insert_alert", k) : j < i
          /\ \A i \in Attempts("insert_alert", k) :
                \E j \in Attempts("evaluate", 0) : j < i
          /\ (\E n \in DOMAIN store_alerts : store_alerts[n].id = eng.alerts[k].id) =>
                Attempts("insert_event", 0) # {}
          /\ (\E n \in DOMAIN on_alert_calls : on_alert_calls[n] = eng.alerts[k].id) =>
                /\ Attempts("insert_event", 0) # {}
                /\ Attempts("insert_alert", k) # {}
    /\ eng.alerts # <<>> => Attempts("insert_event", 0) # {}

\* the insert of the event failed; its alert was stored and handed to on_alert
\* all the same
C26_Witness ==
    /\ Returned
    /\ Failed("insert_event")
    /\ Len(eng.alerts) = 1
    /\ store_alerts # <<>>
    /\ on_alert_calls = <<eng.alerts[1].id>>

\* C15: a window whose enabled flag is false never makes an instant count as
\* inside an away window: an alert of rule R1 or R4 is produced only for an
\* event whose timestamp lies in an enabled window of the list.
C15_DisabledWindowIgnored ==
    [][EvaluatedNow =>
          \A i \in DOMAIN eng'.alerts :
              RuleOf(eng'.alerts[i]) \in {"R1", "R4"} =>
                  \E k \in DOMAIN away_windows :
                      /\ away_windows[k].enabled
                      /\ LiesInWindow(eng.event.timestamp, away_windows[k])]_vars

(***************************************************************************)
(* engine/event_bus.py: EventBus                                           *)
(***************************************************************************)
Publishers == 1..MaxPublishers
Handlers == {"h1", "h2"}     \* the subscriber callbacks of the model
TaskIds == 1..MaxTasks

Range(f) == {f[i] : i \in DOMAIN f}

\* as QueueFull, for a queue that reports itself never full
QueueNeverFull(q) == FALSE

\* asyncio.Queue.full(): never for maxsize <= 0
QueueFull(q) == maxsize > 0 /\ Len(q) >= maxsize

\* as QueueGet, handing out the newest item
QueueGetNewest(q) == [item |-> q[Len(q)], rest |-> SubSeq(q, 1, Len(q) - 1)]

\* as QueueGet, leaving the item on the queue
QueueGetKeep(q) == [item |-> Head(q), rest |-> q]

\* asyncio.Queue._get(): the item handed out and the items left
QueueGet(q) == [item |-> Head(q), rest |-> Tail(q)]

SubscriberUncaught == FALSE    \* as CatchesSubscriber, the try block left out
\* the try/except Exception around `await sub(event)` in _dispatch_loop
CatchesSubscriber == TRUE

PubIdle == [state |-> "idle", ev |-> 0]
NoTask == [state |-> "unborn", ev |-> 0, idx |-> 0, sub |-> "none"]

\* as LoopTop, for a loop that ends after one pass
LoopOnce == [state |-> "done", ev |-> 0, idx |-> 0, sub |-> "none"]

\* `while self._running:` evaluated by a task that is not suspended
LoopTop ==
    IF running THEN [state |-> "get", ev |-> 0, idx |-> 0, sub |-> "none"]
    ELSE [state |-> "done", ev |-> 0, idx |-> 0, sub |-> "none"]

\* EventBus.subscribe
subscribe(h) ==
    /\ subscribers' = Append(subscribers, h)
    /\ UNCHANGED <<maxsize, queue, putters, pub, running, task_ref, tasks, stops,
                   n_published, accepted, delivered, failures, cut>>
    /\ UNCHANGED notBus

\* list.remove: the list without the first occurrence of h
ListRemove(l, h) ==
    LET i == CHOOSE k \in DOMAIN l : l[k] = h /\ \A j \in 1..(k - 1) : l[j] # h
    IN SubSeq(l, 1, i - 1) \o SubSeq(l, i + 1, Len(l))

\* EventBus.unsubscribe, for a callback that is subscribed
unsubscribe(h) ==
    /\ h \in Range(subscribers)
    /\ subscribers' = ListRemove(subscribers, h)
    /\ UNCHANGED <<maxsize, queue, putters, pub, running, task_ref, tasks, stops,
                   n_published, accepted, delivered, failures, cut>>
    /\ UNCHANGED notBus

\* as QueuePut, the item put in front
QueuePutFront(q, e) == <<e>> \o q

\* asyncio.Queue._put(): the deque's append
QueuePut(q, e) == Append(q, e)

\* queue.put ends: the event is on the queue (put_nowait)
Enqueue(p, e) ==
    /\ queue' = QueuePut(queue, e)
    /\ accepted' = Append(accepted, e)
    /\ pub' = [pub EXCEPT ![p] = PubIdle]

\* queue.put has to wait: the publisher is suspended on a putter future
Suspend(p, e) ==
    /\ pub' = [pub EXCEPT ![p] = [state |-> "waiting", ev |-> e]]
    /\ putters' = Append(putters, p)
    /\ UNCHANGED <<queue, accepted>>

\* EventBus.publish: `await self._queue.put(event)`, up to its first suspension
publish(p) ==
    /\ pub[p].state = "idle"
    /\ n_published < MaxPublished
    /\ n_published' = n_published + 1
    /\ IF QueueFull(queue)
          THEN Suspend(p, n_published + 1)
          ELSE Enqueue(p, n_published + 1) /\ UNCHANGED putters
    /\ UNCHANGED <<maxsize, subscribers, running, task_ref, tasks, stops, delivered,
                   failures, cut>>
    /\ UNCHANGED notBus

\* a publisher woken by a get resumes queue.put: `while self.full()` again
PutResume(p) ==
    /\ pub[p].state = "woken"
    /\ IF QueueFull(queue)
          THEN Suspend(p, pub[p].ev)
          ELSE Enqueue(p, pub[p].ev) /\ UNCHANGED putters
    /\ UNCHANGED <<maxsize, subscribers, running, task_ref, tasks, stops,
                   n_published, delivered, failures, cut>>
    /\ UNCHANGED notBus

\* as start, without the `if self._running: return` guard
StartUnguarded ==
    /\ Cardinality({t \in TaskIds : tasks[t].state # "unborn"}) < MaxTasks
    /\ LET t == CHOOSE u \in TaskIds :
                   /\ tasks[u].state = "unborn"
                   /\ \A v \in TaskIds : v < u => tasks[v].state # "unborn"
       IN /\ running' = TRUE
          /\ tasks' = [tasks EXCEPT ![t] = [NoTask EXCEPT !.state = "get"]]
          /\ task_ref' = t
    /\ UNCHANGED <<maxsize, queue, putters, pub, subscribers, stops, n_published,
                   accepted, delivered, failures, cut>>
    /\ UNCHANGED notBus

\* EventBus.start
start ==
    /\ IF running
          THEN UNCHANGED <<running, task_ref, tasks>>
          ELSE /\ Cardinality({t \in TaskIds : tasks[t].state # "unborn"}) < MaxTasks
               /\ LET t == CHOOSE u \in TaskIds :
                              /\ tasks[u].state = "unborn"
                              /\ \A v \in TaskIds : v < u => tasks[v].state # "unborn"
                  IN /\ running' = TRUE
                     /\ tasks' = [tasks EXCEPT ![t] = [NoTask EXCEPT !.state = "get"]]
                     /\ task_ref' = t
    /\ UNCHANGED <<maxsize, queue, putters, pub, subscribers, stops, n_published,
                   accepted, delivered, failures, cut>>
    /\ UNCHANGED notBus

\* EventBus.stop up to `await self._task`; with no task, or one that has
\* ended, it runs to its end
StopBegin ==
    /\ running' = FALSE
    /\ IF task_ref = 0
          THEN UNCHANGED <<task_ref, tasks, stops, cut>>
          ELSE IF tasks[task_ref].state = "done"
          THEN task_ref' = 0 /\ UNCHANGED <<tasks, stops, cut>>
          ELSE /\ tasks' = [tasks EXCEPT ![task_ref].state = "cancelled"]
               /\ stops' = stops \cup {task_ref}
               /\ cut' = IF tasks[task_ref].state = "call"
                         THEN cut \cup {tasks[task_ref].ev} ELSE cut
               /\ UNCHANGED task_ref
    /\ UNCHANGED <<maxsize, queue, putters, pub, subscribers, n_published, accepted,
                   delivered, failures>>
    /\ UNCHANGED notBus

\* a cancelled dispatch task is scheduled: CancelledError ends it
TaskUnwind(t) ==
    /\ tasks[t].state = "cancelled"
    /\ tasks' = [tasks EXCEPT ![t] = [NoTask EXCEPT !.state = "done"]]
    /\ UNCHANGED <<maxsize, queue, putters, pub, subscribers, running, task_ref,
                   stops, n_published, accepted, delivered, failures, cut>>
    /\ UNCHANGED notBus

\* EventBus.stop after `await self._task`: self._task = None
StopEnd(t) ==
    /\ t \in stops
    /\ tasks[t].state = "done"
    /\ stops' = stops \ {t}
    /\ task_ref' = 0
    /\ UNCHANGED <<maxsize, queue, putters, pub, subscribers, running, tasks,
                   n_published, accepted, delivered, failures, cut>>
    /\ UNCHANGED notBus

\* _dispatch_loop: queue.get() returns an event; the first subscriber is next
TaskGet(t) ==
    /\ tasks[t].state = "get"
    /\ queue # <<>>
    /\ LET got == QueueGet(queue)
       IN /\ queue' = got.rest
          /\ tasks' = [tasks EXCEPT ![t] =
                          IF subscribers = <<>> THEN LoopTop
                          ELSE [state |-> "call", ev |-> got.item, idx |-> 1,
                                sub |-> subscribers[1]]]
    /\ IF putters # <<>>
          THEN /\ pub' = [pub EXCEPT ![Head(putters)].state = "woken"]
               /\ putters' = Tail(putters)
          ELSE UNCHANGED <<pub, putters>>
    /\ UNCHANGED <<maxsize, subscribers, running, task_ref, stops, n_published,
                   accepted, delivered, failures, cut>>
    /\ UNCHANGED notBus

\* _dispatch_loop: wait_for times out on an empty queue; `continue` leads
\* back to `while self._running`
TaskTimeout(t) ==
    /\ tasks[t].state = "get"
    /\ queue = <<>>
    /\ tasks' = [tasks EXCEPT ![t] = LoopTop]
    /\ UNCHANGED <<maxsize, queue, putters, pub, subscribers, running, task_ref,
                   stops, n_published, accepted, delivered, failures, cut>>
    /\ UNCHANGED notBus

\* _dispatch_loop: `await sub(event)` ends, normally (ok) or by raising, for
\* the subscriber that `for sub in self._subscribers` took from position idx;
\* the list iterator then takes the item at the next position of the list as
\* it is now, or the loop is back at its top
TaskCall(t, ok) ==
    /\ tasks[t].state = "call"
    /\ LET h == tasks[t].sub
           ev == tasks[t].ev
       IN /\ delivered' = [delivered EXCEPT ![h] = Append(@, ev)]
          /\ failures' = IF ok THEN failures ELSE failures \cup {<<ev, h>>}
          /\ tasks' = [tasks EXCEPT ![t] =
                IF ~ok /\ ~CatchesSubscriber
                   THEN [tasks[t] EXCEPT !.state = "crashed"]
                ELSE IF tasks[t].idx < Len(subscribers)
                   THEN [state |-> "call", ev |-> ev, idx |-> tasks[t].idx + 1,
                         sub |-> subscribers[tasks[t].idx + 1]]
                ELSE LoopTop]
    /\ UNCHANGED <<maxsize, queue, putters, pub, subscribers, running, task_ref,
                   stops, n_published, accepted, cut>>
    /\ UNCHANGED notBus

\* a bus that was never used
BusFresh ==
    /\ queue = <<>>
    /\ putters = <<>>
    /\ pub = [p \in Publishers |-> PubIdle]
    /\ subscribers = <<>>
    /\ running = FALSE
    /\ task_ref = 0
    /\ tasks = [t \in TaskIds |-> NoTask]
    /\ stops = {}
    /\ n_published = 0
    /\ accepted = <<>>
    /\ delivered = [h \in Handlers |-> <<>>]
    /\ failures = {}
    /\ cut = {}

InitBus ==
    /\ maxsize \in 0..MaxQueueSize
    /\ BusFresh

\* The bus as its callers use it: the subscribers, each a different callback,
\* register before the producers are started, with the bus running or not,
\* and start and stop are called one after the other by the supervising task.
NothingPublished == n_published = 0

NextBus ==
    \/ \E h \in Handlers \ Range(subscribers) : NothingPublished /\ subscribe(h)
    \/ \E p \in Publishers : publish(p)
    \/ \E p \in Publishers : PutResume(p)
    \/ stops = {} /\ start
    \/ stops = {} /\ StopBegin
    \/ \E t \in TaskIds : StopEnd(t)
    \/ \E t \in TaskIds : TaskUnwind(t)
    \/ \E t \in TaskIds : TaskGet(t)
    \/ \E t \in TaskIds : TaskTimeout(t)
    \/ \E t \in TaskIds, ok \in BOOLEAN : TaskCall(t, ok)

(***************************************************************************)
(* The bus: claims                                                         *)
(***************************************************************************)
\* the position of subscriber h in the subscriber list, 0 if it is not there
SubscriberIndex(h) ==
    IF h \in Range(subscribers) THEN CHOOSE i \in DOMAIN subscribers : subscribers[i] = h
    ELSE 0

\* C3: every subscriber is invoked with the events in the order in which
\* publish accepted them: of two events a subscriber was invoked with, the
\* one it saw first was accepted first, however the publish calls interleave.
C3_SubscriberSeesAcceptOrder ==
    \A h \in Handlers :
        \A i, j \in DOMAIN delivered[h] :
            i < j => \E a, b \in DOMAIN accepted :
                        /\ a < b
                        /\ accepted[a] = delivered[h][i]
                        /\ accepted[b] = delivered[h][j]

\* Three events of two publishers on a bus of size one: the second publish
\* was suspended and overtaken by the third, and the subscriber saw all three
\* in the order of acceptance.
C3_Witness ==
    /\ accepted = <<1, 3, 2>>
    /\ delivered["h1"] = <<1, 3, 2>>

\* C4: every subscriber invocation carries an event publish has accepted, and
\* no subscriber is invoked twice with the same event, whatever publish, start
\* and stop calls were made.
C4_DeliveredOnceAndAccepted ==
    \A h \in Handlers :
        /\ \A i \in DOMAIN delivered[h] : delivered[h][i] \in Range(accepted)
        /\ Cardinality(Range(delivered[h])) = Len(delivered[h])

\* The bus was stopped in the middle of an event and started again, and the
\* second dispatch task has delivered a later event.
C4_Witness ==
    /\ cut # {}
    /\ task_ref = 2
    /\ \E i \in DOMAIN delivered["h1"] :
           \E c \in cut : delivered["h1"][i] \notin cut /\ delivered["h1"][i] > c

\* C5: a subscriber that raises does not end the dispatch loop, and every
\* subscriber registered after it is invoked with the same event: such a
\* subscriber has been invoked with it, or the loop has not reached it yet,
\* or a stop cancelled the loop in the middle of that event.
C5_SubscriberFailureIsolated ==
    /\ \A t \in TaskIds : tasks[t].state # "crashed"
    /\ \A f \in failures :
           \A k \in DOMAIN subscribers :
               k > SubscriberIndex(f[2]) =>
                   \/ f[1] \in Range(delivered[subscribers[k]])
                   \/ \E t \in TaskIds : /\ tasks[t].state = "call"
                                         /\ tasks[t].ev = f[1]
                                         /\ tasks[t].idx <= k
                   \/ f[1] \in cut

\* The first of two subscribers raised on event 1; the second was invoked
\* with event 1 all the same, and event 2 reached both.
C5_Witness ==
    /\ Len(subscribers) = 2
    /\ <<1, subscribers[1]>> \in failures
    /\ 1 \in Range(delivered[subscribers[2]])
    /\ 2 \in Range(delivered[subscribers[1]])
    /\ 2 \in Range(delivered[subscribers[2]])
    /\ cut = {}

\* the dispatch tasks that have begun and not ended
LiveTasks == {t \in TaskIds : tasks[t].state \notin {"unborn", "done"}}

\* no start or stop call is in progress and the last one was a stop (or
\* the bus was never started)
BusStopped == ~running /\ stops = {}

\* C18: there is never more than one dispatch task alive, so a start on a
\* running bus has created none; when stop has returned, running is false,
\* no dispatch task is alive, and until the next start no subscriber is
\* invoked and nothing is taken from the queue, also under further stops.
C18_LifecycleIdempotent ==
    [][/\ Cardinality(LiveTasks') <= 1
       /\ running' => LiveTasks' = {task_ref'}
       /\ BusStopped' => LiveTasks' = {} /\ task_ref' = 0
       /\ (BusStopped /\ BusStopped') =>
             /\ delivered' = delivered
             /\ tasks' = tasks
             /\ Len(queue') >= Len(queue)]_vars

\* The bus was started and stopped twice; events wait in the queue of the
\* stopped bus and some event was cut off by a stop.
C18_Witness ==
    /\ BusStopped
    /\ \A t \in TaskIds : tasks[t].state = "done"
    /\ queue # <<>>
    /\ cut # {}

\* a step in which publish is called
\* EventBus.pending
bus_pending == Len(queue)

\* C29: the queue holds, in publish order, exactly the accepted events that
\* the dispatch loop has not dequeued, so pending is their number (events
\* published while the bus is not running stay queued); a subscriber
\* invocation begins only while the bus is running; and the event the loop
\* dispatches next is the oldest one queued.
C29_QueuedUntilStarted ==
    /\ [](/\ bus_pending <= Len(accepted)
          /\ queue = SubSeq(accepted, Len(accepted) - bus_pending + 1, Len(accepted)))
    /\ [][/\ \A t \in TaskIds :
               (tasks'[t].state = "call" /\ tasks'[t] # tasks[t]) => running
          /\ \A t \in TaskIds :
               (tasks[t].state = "get" /\ tasks'[t].state = "call") =>
                  /\ tasks'[t].ev = Head(queue)
                  /\ queue' = Tail(queue)
          /\ ~running => Len(queue') >= Len(queue)]_vars

\* two events published to a bus with a subscriber that was never started:
\* both pending, nothing delivered
C29_Witness ==
    /\ \A t \in TaskIds : tasks[t].state = "unborn"
    /\ ~running
    /\ subscribers # <<>>
    /\ bus_pending = 2
    /\ \A h \in Handlers : delivered[h] = <<>>

PublishCalled == n_published' # n_published

\* C6 as claimed: publish on a full bounded bus fails, leaving the queue as
\* it is and the producer free to go on; any other publish enqueues.
C6_FullBusRejectsPublish ==
    [][PublishCalled =>
          IF maxsize > 0 /\ Len(queue) >= maxsize
          THEN queue' = queue /\ accepted' = accepted /\ pub' = pub
          ELSE /\ queue' = Append(queue, n_published')
               /\ accepted' = Append(accepted, n_published')
               /\ pub' = pub]_vars

\* C6, amended: publish on a full bounded bus does not fail and does not
\* enqueue: the producer is suspended, its event stays out of the queue, and
\* it is enqueued only by a resumption that finds the queue not full; any
\* other publish enqueues at once.
C6_FullBusSuspendsPublish ==
    [][/\ PublishCalled =>
            IF maxsize > 0 /\ Len(queue) >= maxsize
            THEN /\ queue' = queue
                 /\ accepted' = accepted
                 /\ \E p \in Publishers :
                        /\ pub[p].state = "idle"
                        /\ pub' = [pub EXCEPT ![p] = [state |-> "waiting",
                                                      ev |-> n_published']]
            ELSE /\ queue' = Append(queue, n_published')
                 /\ accepted' = Append(accepted, n_published')
                 /\ pub' = pub
       /\ \A p \in Publishers :
            /\ pub'[p].state # "idle" => pub'[p].ev \notin Range(accepted')
            /\ pub[p].state # "idle" /\ pub'[p].state = "idle" =>
                  /\ ~(maxsize > 0 /\ Len(queue) >= maxsize)
                  /\ queue' = Append(queue, pub[p].ev)]_vars

\* A producer is suspended in publish on a full bus, its event neither
\* queued nor accepted.
C6_Witness ==
    /\ maxsize > 0
    /\ Len(queue) = maxsize
    /\ \E p \in Publishers : /\ pub[p].state = "waiting"
                             /\ pub[p].ev \notin Range(queue)
                             /\ pub[p].ev \notin Range(accepted)

(***************************************************************************)
(* engine/event_bus.py: start and stop called from concurrent tasks        *)
(*                                                                         *)
(* A start or a stop may be called while an earlier stop is suspended in   *)
(* `await self._task`.                                                     *)
(***************************************************************************)
NextConcurrent ==
    \/ \E h \in Handlers \ Range(subscribers) : NothingPublished /\ subscribe(h)
    \/ \E p \in Publishers : publish(p)
    \/ start
    \/ StopBegin
    \/ \E t \in TaskIds : StopEnd(t)
    \/ \E t \in TaskIds : TaskUnwind(t)
    \/ \E t \in TaskIds : TaskGet(t)
    \/ \E t \in TaskIds : TaskTimeout(t)
    \/ \E t \in TaskIds, ok \in BOOLEAN : TaskCall(t, ok)

\* the dispatch tasks that are in their loop, not cancelled
LoopingTasks == {t \in TaskIds : tasks[t].state \in {"get", "call"}}

\* C27: under any interleaving of start and stop calls from concurrent tasks
\* at most one dispatch loop is alive, and once the last call was a stop and
\* every stop has returned, no dispatch task is left alive.
C27_OneLoopUnderConcurrency ==
    /\ Cardinality(LoopingTasks) <= 1
    /\ BusStopped => LiveTasks = {}

(***************************************************************************)
(* engine/event_bus.py: a bus that is started and never stopped            *)
(*                                                                         *)
(* The subscribers register before the first publish and are never         *)
(* removed.  The scheduler runs the dispatch task whenever it can take a   *)
(* step, resumes a woken publisher, and every subscriber invocation ends.  *)
(***************************************************************************)
NextLive ==
    \/ \E h \in Handlers \ Range(subscribers) : NothingPublished /\ subscribe(h)
    \/ \E p \in Publishers : publish(p)
    \/ \E p \in Publishers : PutResume(p)
    \/ start
    \/ \E t \in TaskIds : TaskGet(t)
    \/ \E t \in TaskIds : TaskTimeout(t)
    \/ \E t \in TaskIds, ok \in BOOLEAN : TaskCall(t, ok)

FairLive ==
    /\ WF_vars(start)
    /\ \A p \in Publishers : WF_vars(PutResume(p))
    /\ \A t \in TaskIds :
          /\ WF_vars(TaskGet(t))
          /\ WF_vars(\E ok \in BOOLEAN : TaskCall(t, ok))

\* C28: on a bus that is started and not stopped afterwards, with a fixed
\* subscriber list and subscriber invocations that all end, every event
\* accepted by publish is eventually delivered to every subscriber.
C28_AcceptedIsDelivered ==
    \A e \in 1..MaxPublished : \A h \in Handlers :
       (e \in Range(accepted) /\ h \in Range(subscribers))
          ~> (e \in Range(delivered[h]))

\* every event of the run was accepted, the first subscriber raised on each,
\* and the second subscriber got them all
C28_Witness ==
    /\ Len(accepted) = MaxPublished
    /\ subscribers = <<"h1", "h2">>
    /\ \A e \in 1..MaxPublished :
          /\ <<e, "h1">> \in failures
          /\ e \in Range(delivered["h2"])

(***************************************************************************)
(* main.py: lifespan, as far as it drives the bus                          *)
(*                                                                         *)
(* The supervising task starts the bus, starts the engine (which           *)
(* subscribes _handle_event), subscribes ws_forward and starts the         *)
(* producers; at shutdown it stops the producers, stops the engine (which  *)
(* unsubscribes _handle_event) and stops the bus.  Where it stands is read *)
(* off the bus: its steps are taken in this order only.                    *)
(***************************************************************************)
EngineHandler == "h1"    \* TimelineEngine._handle_event
WsForward == "h2"        \* ws_forward

NeverStarted == ~running /\ \A t \in TaskIds : tasks[t].state = "unborn"

\* _bus = EventBus(); await _bus.start()
LifespanBusStart == NeverStarted /\ subscribers = <<>> /\ start
\* await _timeline.start()
LifespanEngineStart == running /\ subscribers = <<>> /\ subscribe(EngineHandler)
\* _bus.subscribe(ws_forward)
LifespanWsSubscribe ==
    running /\ subscribers = <<EngineHandler>> /\ subscribe(WsForward)
\* the producers are started and publish until they are stopped
LifespanPublish(p) ==
    running /\ subscribers = <<EngineHandler, WsForward>> /\ publish(p)
\* the producers are stopped; await _timeline.stop()
LifespanEngineStop ==
    running /\ subscribers = <<EngineHandler, WsForward>> /\ unsubscribe(EngineHandler)
\* await _bus.stop()
LifespanBusStop == running /\ subscribers = <<WsForward>> /\ StopBegin

InitLifespan == maxsize = 0 /\ BusFresh

NextLifespan ==
    \/ LifespanBusStart
    \/ LifespanEngineStart
    \/ LifespanWsSubscribe
    \/ \E p \in Publishers : LifespanPublish(p)
    \/ LifespanEngineStop
    \/ LifespanBusStop
    \/ \E t \in TaskIds : StopEnd(t)
    \/ \E t \in TaskIds : TaskUnwind(t)
    \/ \E t \in TaskIds : TaskGet(t)
    \/ \E t \in TaskIds : TaskTimeout(t)
    \/ \E t \in TaskIds, ok \in BOOLEAN : TaskCall(t, ok)

(***************************************************************************)
(* The lifespan: claims                                                    *)
(***************************************************************************)
\* the dispatch of event e has ended without being cancelled
Dispatched(e) ==
    /\ e \in Range(accepted)
    /\ e \notin Range(queue)
    /\ e \notin cut
    /\ \A t \in TaskIds : tasks[t].ev # e

\* C24: in the supervising lifecycle the subscriber list is not changed while
\* a dispatch task is alive (every subscribe comes before the start of the
\* bus, every unsubscribe after its stop), and a subscriber that stays
\* subscribed is invoked with every event whose dispatch has ended.
C24_ListStableWhileRunning ==
    /\ [][subscribers' # subscribers => ~running /\ LiveTasks = {}]_vars
    /\ [](\A e \in Range(accepted) :
             Dispatched(e) => e \in Range(delivered[WsForward]))

(***************************************************************************)
(* engine/timeline.py: TimelineEngine.start and stop, on the bus           *)
(*                                                                         *)
(* The engine is started and stopped any number of times; the producers    *)
(* publish while it is started, and it is stopped only when the bus has    *)
(* nothing queued and nothing in dispatch.                                 *)
(***************************************************************************)
\* TimelineEngine.start: self._bus.subscribe(self._handle_event)
TimelineStart ==
    /\ Len(subscribers) < MaxEngineStarts
    /\ subscribe(EngineHandler)

BusQuiet == queue = <<>> /\ \A t \in TaskIds : tasks[t].state # "call"

\* TimelineEngine.stop: self._bus.unsubscribe(self._handle_event)
TimelineStop == BusQuiet /\ unsubscribe(EngineHandler)

EngineStarted == EngineHandler \in Range(subscribers)

\* a producer publishes while the engine is started
TimelinePublish(p) == EngineStarted /\ publish(p)

NextTimeline ==
    \/ TimelineStart
    \/ TimelineStop
    \/ start
    \/ \E p \in Publishers : TimelinePublish(p)
    \/ \E t \in TaskIds : TaskGet(t)
    \/ \E t \in TaskIds : TaskTimeout(t)
    \/ \E t \in TaskIds, ok \in BOOLEAN : TaskCall(t, ok)

(***************************************************************************)
(* The engine on the bus: claims                                           *)
(***************************************************************************)
\* how many times _handle_event has run for event e, each run with one
\* insert of the event and one evaluation of the rules
Handled(e) ==
    Cardinality({i \in DOMAIN delivered[EngineHandler] :
                    delivered[EngineHandler][i] = e})

\* C25: whatever start and stop calls the engine has seen, start called more
\* than once included, an event accepted by the bus is handled by the engine
\* at most once, and exactly once when its dispatch has ended: one insert of
\* the event, one evaluation of the rules.
C25_EventHandledOnce ==
    \A e \in Range(accepted) :
       /\ Handled(e) <= 1
       /\ Dispatched(e) => Handled(e) = 1

(***************************************************************************)
(* alerts/dispatcher.py: AlertDispatcher                                   *)
(***************************************************************************)
\* SEVERITY_ORDER.get(severity, 0)
Rank(severity) ==
    IF severity \in DOMAIN SEVERITY_ORDER THEN SEVERITY_ORDER[severity] ELSE 0

\* as RouteMatches, with a strict comparison
RouteMatchesStrict(alert_level, route) == alert_level > Rank(route.min_severity)

\* `if alert_level >= threshold`
RouteMatches(alert_level, route) == alert_level >= Rank(route.min_severity)

NotifierUncaught == FALSE    \* as CatchesNotifier, the try block left out
\* the try/except Exception around `await notifier(alert)`
CatchesNotifier == TRUE

DispIdle == [pc |-> "idle", severity |-> "INFO", i |-> 0, calls |-> <<>>, n |-> 0]

\* the first route from position i on whose threshold the alert reaches
RECURSIVE NextMatch(_, _)
NextMatch(i, severity) ==
    IF i > Len(routes) THEN i
    ELSE IF RouteMatches(Rank(severity), routes[i]) THEN i
    ELSE NextMatch(i + 1, severity)

\* `for min_sev, notifier in self._routes` from position i: up to the next
\* `await notifier(alert)`, or to the end of dispatch
Advance(d, i) ==
    LET j == NextMatch(i, d.severity)
    IN IF j <= Len(routes) THEN [d EXCEPT !.pc = "notify", !.i = j]
       ELSE [d EXCEPT !.pc = "idle", !.i = 0]

\* AlertDispatcher.add_route; the notifier is the route's own callable
add_route(min_severity) ==
    /\ Len(routes) < MaxRoutes
    /\ routes' = Append(routes, [min_severity |-> min_severity,
                                 notifier |-> Len(routes) + 1])
    /\ UNCHANGED <<disp, in_flight>>
    /\ UNCHANGED notDisp

\* AlertDispatcher.dispatch is called with an alert of the given severity
dispatch(severity) ==
    /\ disp.pc \in {"idle", "raised"}
    /\ disp.n < MaxDispatches
    /\ disp' = Advance([pc |-> "idle", severity |-> severity, i |-> 0,
                        calls |-> <<>>, n |-> disp.n + 1], 1)
    /\ UNCHANGED <<routes, in_flight>>
    /\ UNCHANGED notDisp

\* `await notifier(alert)` ends, normally (ok) or by raising
NotifierDone(ok) ==
    /\ disp.pc = "notify"
    /\ LET d1 == [disp EXCEPT !.calls = Append(@, [route |-> disp.i, ok |-> ok])]
       IN disp' = IF ~ok /\ ~CatchesNotifier THEN [d1 EXCEPT !.pc = "raised"]
                  ELSE Advance(d1, disp.i + 1)
    /\ UNCHANGED <<routes, in_flight>>
    /\ UNCHANGED notDisp

\* the coroutines that may be inside on_alert's `await
\* _dispatcher.dispatch(alert)` at the same time
Callers == 1..MaxCallers

\* a caller that has not called dispatch yet
NotCalling == [pc |-> "new", severity |-> "INFO", i |-> 0, log |-> <<>>]

\* the thresholds and alert severities of the calls that run side by side
RouteSeverities == {"INFO", "HIGH"}
AlertSeverities == {"LOW", "CRITICAL"}

\* caller c enters AlertDispatcher.dispatch and runs to its first
\* `await notifier(alert)`, or through the whole loop when no route matches;
\* log lists the routes whose notifier this call has invoked
dispatch_from(c, severity) ==
    /\ in_flight[c].pc \in {"new", "idle"}
    /\ LET d == Advance([NotCalling EXCEPT !.severity = severity], 1)
       IN in_flight' = [in_flight EXCEPT
              ![c] = IF d.pc = "notify" THEN [d EXCEPT !.log = <<d.i>>] ELSE d]
    /\ UNCHANGED <<routes, disp>>
    /\ UNCHANGED notDisp

\* the notifier awaited by caller c ends, normally or by raising (caught),
\* and the loop of that call goes on to its next matching route
NotifierReturns(c, ok) ==
    /\ in_flight[c].pc = "notify"
    /\ LET d == Advance(in_flight[c], in_flight[c].i + 1)
       IN in_flight' = [in_flight EXCEPT
              ![c] = IF d.pc = "notify" THEN [d EXCEPT !.log = Append(@, d.i)]
                     ELSE d]
    /\ UNCHANGED <<routes, disp>>
    /\ UNCHANGED notDisp

\* AlertDispatcher.__init__
InitDispatch ==
    /\ routes = <<>>
    /\ disp = DispIdle
    /\ in_flight = [c \in Callers |-> NotCalling]

\* dispatch calls from several coroutines, the routes registered first
NextOverlap ==
    \/ \E severity \in RouteSeverities :
           /\ \A c \in Callers : in_flight[c].pc = "new"
           /\ add_route(severity)
    \/ \E c \in Callers, severity \in AlertSeverities : dispatch_from(c, severity)
    \/ \E c \in Callers, ok \in BOOLEAN : NotifierReturns(c, ok)

\* The routes are registered before the first dispatch, as in main.lifespan.
NextDispatch ==
    \/ \E severity \in Severity : disp.n = 0 /\ disp.pc = "idle" /\ add_route(severity)
    \/ \E severity \in Severity : dispatch(severity)
    \/ \E ok \in BOOLEAN : NotifierDone(ok)

(***************************************************************************)
(* The dispatcher: claims                                                  *)
(***************************************************************************)
\* the routes the alert of caller c matches, in insertion order, up to and
\* including position i
MatchingUpTo(c, i) ==
    SelectSeq([r \in DOMAIN routes |-> r],
              LAMBDA r : r <= i /\ RouteMatches(Rank(in_flight[c].severity), routes[r]))

\* within one call the notifiers are invoked in insertion order, one at a
\* time: the call has invoked exactly the matching routes up to the one it
\* awaits (all of them once it has returned), in list order
InsertionOrderPerCall ==
    \A c \in Callers :
        /\ in_flight[c].pc = "notify" =>
               in_flight[c].log = MatchingUpTo(c, in_flight[c].i)
        /\ in_flight[c].pc = "idle" =>
               in_flight[c].log = MatchingUpTo(c, Len(routes))

\* the notifier of route r is being awaited by caller c
Invoking(c, r) == in_flight[c].pc = "notify" /\ in_flight[c].i = r

\* no notifier is in two invocations at once
SerializedPerRoute ==
    \A r \in DOMAIN routes :
        \A c1, c2 \in Callers : (Invoking(c1, r) /\ Invoking(c2, r)) => c1 = c2

\* C30: for one dispatch call the notifiers of the matching routes are
\* invoked in route insertion order, each awaited to completion before the
\* next starts; and no two invocations of the same route's notifier overlap
\* in time, under any interleaving of dispatch calls.
C30_OrderedAndSerialized == InsertionOrderPerCall /\ SerializedPerRoute

\* dispatch has returned to its caller
DispatchReturned == disp.pc = "idle" /\ disp.n > 0

\* how many times the notifier of route r was invoked for the alert
Invocations(r) == Cardinality({i \in DOMAIN disp.calls : disp.calls[i].route = r})

\* C8: when dispatch returns, the notifier of every route whose minimum
\* severity ranks at or below the alert's severity was invoked exactly once,
\* and the notifier of no other route was invoked; no notifier is ever
\* invoked twice for one alert.
C8_RouteFiresOnceIffReached ==
    /\ \A r \in DOMAIN routes : Invocations(r) <= 1
    /\ DispatchReturned =>
          \A r \in DOMAIN routes :
              Invocations(r) =
                  IF SEVERITY_ORDER[routes[r].min_severity] <= SEVERITY_ORDER[disp.severity]
                  THEN 1 ELSE 0

\* With the routes (INFO, 1), (MEDIUM, 2), (HIGH, 3) a MEDIUM alert has
\* reached the notifiers 1 and 2 only.
C8_Witness ==
    /\ DispatchReturned
    /\ [i \in DOMAIN routes |-> routes[i].min_severity] = <<"INFO", "MEDIUM", "HIGH">>
    /\ disp.severity = "MEDIUM"
    /\ [i \in DOMAIN disp.calls |-> disp.calls[i].route] = <<1, 2>>

\* C9: dispatch never raises to its caller, and when a notifier has raised,
\* every later route whose threshold the alert meets has had its notifier
\* invoked by the time dispatch returns.
C9_NotifierFailureSwallowed ==
    /\ disp.pc # "raised"
    /\ DispatchReturned =>
          \A i \in DOMAIN disp.calls :
              ~disp.calls[i].ok =>
                  \A r \in DOMAIN routes :
                      (r > disp.calls[i].route /\ RouteMatches(Rank(disp.severity), routes[r]))
                          => \E j \in DOMAIN disp.calls : j > i /\ disp.calls[j].route = r

\* The first notifier raised, a later one was invoked, dispatch returned.
C9_Witness ==
    /\ DispatchReturned
    /\ Len(disp.calls) >= 2
    /\ ~disp.calls[1].ok
    /\ disp.calls[2].ok

(***************************************************************************)
(* monitors/session_monitor.py: SessionMonitor                             *)
(***************************************************************************)
\* the three logs _fetch_all reads, in its order, with the ids it asks for
SessionLogs ==
    <<[log |-> "Security", ids |-> DOMAIN _SECURITY_EVENTS],
      [log |-> "System", ids |-> DOMAIN _SYSTEM_EVENTS],
      [log |-> "RDP", ids |-> DOMAIN _RDP_EVENTS]>>

\* the records the OS writes in the model: (log, event id)
RecordSamples ==
    {<<"Security", 4625>>, <<"Security", 9999>>, <<"System", 42>>, <<"RDP", 21>>}

\* _read_events_blocking on the records recs of one log, read backwards from
\* record i: it stops at the first record that is not newer than since
RECURSIVE ReadBackwards(_, _, _, _)
ReadBackwards(recs, i, event_ids, since) ==
    IF i = 0 THEN <<>>
    ELSE IF recs[i].timestamp <= since THEN <<>>
    ELSE (IF recs[i].event_id \in event_ids THEN <<recs[i]>> ELSE <<>>)
         \o ReadBackwards(recs, i - 1, event_ids, since)

\* off Windows, or without pywin32, it returns the empty list
_read_events_blocking(log_type, event_ids, since) ==
    LET recs == SelectSeq(evlog, LAMBDA r : r.log = log_type)
    IN IF log_oracle = "missing" THEN <<>>
       ELSE ReadBackwards(recs, Len(recs), event_ids, since)

\* failed: the last cycle ended in the except block
SessNone == [pc |-> "none", since |-> 0, now |-> 0, reading |-> 0, batch |-> <<>>,
             wake |-> 0, failed |-> FALSE]

\* the records of a batch that _poll_loop publishes: those with a known action
Publishable(batch) == SelectSeq(batch, LAMBDA r : SessionAction(r.event_id) # "none")

\* as CycleMark, taking the mark from the newest record read, the epoch if
\* nothing was read
CycleMarkFromRecords(s, batch) == IF batch = <<>> THEN 0 ELSE batch[1].timestamp

\* as CycleMark, with the instant at which the cycle ends
CycleMarkAtEnd(s, batch) == clock

\* `self._last_read_time = now` at the end of a cycle that did not raise
CycleMark(s, batch) == s.now

\* the clock advances
Tick ==
    /\ clock < MaxClock
    /\ clock' = clock + 1
    /\ UNCHANGED <<evlog, last_read_time, sess_running, sess, sess_published>>
    /\ UNCHANGED <<log_oracle, notSess>>

\* the OS writes a record, stamped with the current time (TimeGenerated)
LogRecord(log, eid) ==
    /\ Len(evlog) < MaxRecords
    /\ evlog' = Append(evlog, [rid |-> Len(evlog) + 1, log |-> log, event_id |-> eid,
                               timestamp |-> clock])
    /\ UNCHANGED <<clock, last_read_time, sess_running, sess, sess_published>>
    /\ UNCHANGED <<log_oracle, notSess>>

\* SessionMonitor.start
SessStart ==
    /\ IF sess_running
          THEN UNCHANGED <<last_read_time, sess_running, sess>>
          ELSE /\ sess_running' = TRUE
               /\ last_read_time' = clock
               /\ sess' = [SessNone EXCEPT !.pc = "top"]
    /\ UNCHANGED <<clock, evlog, sess_published>>
    /\ UNCHANGED <<log_oracle, notSess>>

\* SessionMonitor.stop: the polling task is cancelled and awaited
SessStop ==
    /\ sess_running' = FALSE
    /\ sess' = SessNone
    /\ UNCHANGED <<clock, evlog, last_read_time, sess_published>>
    /\ UNCHANGED <<log_oracle, notSess>>

\* _poll_loop: a cycle begins; since and now are taken, the first read starts
CycleBegin ==
    /\ sess.pc = "top"
    /\ sess' = IF sess_running
               THEN [sess EXCEPT !.pc = "fetch", !.since = last_read_time,
                                 !.now = clock, !.reading = 1, !.batch = <<>>]
               ELSE [SessNone EXCEPT !.pc = "done"]
    /\ UNCHANGED <<clock, evlog, last_read_time, sess_running, sess_published>>
    /\ UNCHANGED <<log_oracle, notSess>>

\* _fetch_all: one `await asyncio.to_thread(_read_events_blocking, ...)` ends;
\* after the third, the events are published and the mark is advanced.  A
\* read that raises (ok = FALSE) ends the cycle in the except block.
CycleRead(ok) ==
    /\ sess.pc = "fetch"
    /\ LET l == SessionLogs[sess.reading]
           batch == sess.batch \o _read_events_blocking(l.log, l.ids, sess.since)
           asleep == [sess EXCEPT !.pc = "sleep", !.wake = clock + 1, !.batch = <<>>,
                                  !.failed = ~ok]
       IN IF ~ok
          THEN /\ sess' = asleep
               /\ UNCHANGED <<last_read_time, sess_published>>
          ELSE IF sess.reading < Len(SessionLogs)
          THEN /\ sess' = [sess EXCEPT !.reading = @ + 1, !.batch = batch]
               /\ UNCHANGED <<last_read_time, sess_published>>
          ELSE /\ sess_published' =
                     sess_published \o [i \in DOMAIN Publishable(batch) |->
                                            Publishable(batch)[i].rid]
               /\ last_read_time' = CycleMark(sess, batch)
               /\ sess' = asleep
    /\ UNCHANGED <<clock, evlog, sess_running>>
    /\ UNCHANGED <<log_oracle, notSess>>

\* the third read has returned and the k-th event of the cycle raises, in
\* the construction of the TimelineEvent or in publish: the events before
\* it are published and the cycle ends in the except block
CyclePublishRaises(k) ==
    /\ sess.pc = "fetch"
    /\ sess.reading = Len(SessionLogs)
    /\ LET l == SessionLogs[sess.reading]
           batch == sess.batch \o _read_events_blocking(l.log, l.ids, sess.since)
           before == SubSeq(Publishable(batch), 1, k - 1)
       IN /\ k \in DOMAIN Publishable(batch)
          /\ sess_published' = sess_published \o [i \in DOMAIN before |-> before[i].rid]
          /\ sess' = [sess EXCEPT !.pc = "sleep", !.wake = clock + 1, !.batch = <<>>,
                                  !.failed = TRUE]
    /\ UNCHANGED <<clock, evlog, last_read_time, sess_running>>
    /\ UNCHANGED <<log_oracle, notSess>>

\* `await asyncio.sleep(self._poll_interval)` ends
SleepEnd ==
    /\ sess.pc = "sleep"
    /\ clock >= sess.wake
    /\ sess' = [SessNone EXCEPT !.pc = "top"]
    /\ UNCHANGED <<clock, evlog, last_read_time, sess_running, sess_published>>
    /\ UNCHANGED <<log_oracle, notSess>>

\* SessionMonitor.__init__
SessionFresh ==
    /\ clock = 0
    /\ evlog = <<>>
    /\ last_read_time = 0
    /\ sess_running = FALSE
    /\ sess = SessNone
    /\ sess_published = <<>>

InitSession == log_oracle = "native" /\ SessionFresh

NextSession ==
    \/ Tick
    \/ \E r \in RecordSamples : LogRecord(r[1], r[2])
    \/ SessStart
    \/ SessStop
    \/ CycleBegin
    \/ \E ok \in BOOLEAN : CycleRead(ok)
    \/ \E k \in 1..MaxRecords : CyclePublishRaises(k)
    \/ SleepEnd

(***************************************************************************)
(* The session producer: claims                                            *)
(***************************************************************************)
\* C10: over any sequence of polling cycles the session producer publishes
\* at most one event per log record.
C10_RecordPublishedAtMostOnce ==
    Cardinality(Range(sess_published)) = Len(sess_published)

\* C11: last_read_time never decreases, whatever polling cycles (ended
\* normally or by raising), start and stop calls and clock ticks take place.
C11_MarkNeverDecreases == [][last_read_time' >= last_read_time]_vars

\* The mark was raised by a restart and then again by a cycle that published
\* a record.
C11_Witness ==
    /\ sess.pc = "sleep"
    /\ sess_published # <<>>
    /\ sess.since > 0
    /\ last_read_time > sess.since

\* a step that ends a cycle
CycleEnds == sess.pc = "fetch" /\ sess'.pc = "sleep"

\* C32: after a cycle in which all reads and publishes succeed,
\* last_read_time equals the instant captured at the start of that cycle,
\* before the logs were read; after a cycle that raises, last_read_time is
\* unchanged; and in both cases the loop goes to its sleep and, while the
\* producer runs, from the sleep to the next cycle.
C32_MarkAfterCycle ==
    /\ [](sess.pc = "sleep" =>
             last_read_time = IF sess.failed THEN sess.since ELSE sess.now)
    /\ [][/\ (CycleEnds /\ sess'.failed) => last_read_time' = last_read_time
          /\ (CycleEnds /\ ~sess'.failed) => last_read_time' = sess.now
          /\ (sess.pc = "sleep" /\ sess' # sess /\ sess_running') =>
                 sess'.pc = "top"]_vars

\* A cycle published the first of two records and raised on the second,
\* leaving the mark alone; the next cycle read from the same mark, published
\* both, ended normally and set the mark to the instant of its start, while
\* the clock had moved on during its reads.
C32_Witness ==
    /\ sess.pc = "sleep"
    /\ ~sess.failed
    /\ sess.since = 0
    /\ sess.now = 2
    /\ last_read_time = 2
    /\ clock = 3
    /\ Len(sess_published) = 3

(***************************************************************************)
(* db/database.py: table alerts                                            *)
(***************************************************************************)
AlertKeys == 1..MaxAlerts
NoneValue == 0                     \* Python None, SQL NULL
Instants == 1..MaxInstant

\* table alerts has `id` as its primary key: INSERT of a present id fails
AlertsPrimaryKey == TRUE

NoCall == [n |-> 0, op |-> "none", id |-> 0, result |-> FALSE]

\* a store call returns (or raises): the call record moves on
Returns(op, id, result) ==
    /\ db_ret' = [n |-> db_ret.n + 1, op |-> op, id |-> id, result |-> result]
    /\ db_prev' = db_ret

\* cursor.rowcount of `UPDATE alerts ... WHERE id = ?`
RowCount(alert_id) == IF alert_id \in DOMAIN db_alerts THEN 1 ELSE 0

\* as SetAcknowledged, flipping the flag
ToggleAcknowledged(row) == [row EXCEPT !.acknowledged = ~@]

\* `SET acknowledged = 1`
SetAcknowledged(row) == [row EXCEPT !.acknowledged = TRUE]

\* `SET snoozed_until = ?`
SetSnoozedUntil(row, until) == [row EXCEPT !.snoozed_until = until]

\* insert_alert: a new row, or IntegrityError for an id that has a row
insert_alert(alert_id, acknowledged, snoozed_until) ==
    /\ db_ret.n < MaxStoreCalls
    /\ IF alert_id \in DOMAIN db_alerts /\ AlertsPrimaryKey
          THEN /\ UNCHANGED db_alerts
               /\ Returns("insert_alert", alert_id, FALSE)
          ELSE /\ db_alerts' = [k \in DOMAIN db_alerts \cup {alert_id} |->
                                   IF k = alert_id
                                   THEN [acknowledged |-> acknowledged,
                                         snoozed_until |-> snoozed_until]
                                   ELSE db_alerts[k]]
               /\ Returns("insert_alert", alert_id, TRUE)
    /\ UNCHANGED notStore

\* acknowledge_alert
acknowledge_alert(alert_id) ==
    /\ db_ret.n < MaxStoreCalls
    /\ db_alerts' = [k \in DOMAIN db_alerts |->
                        IF k = alert_id THEN SetAcknowledged(db_alerts[k])
                        ELSE db_alerts[k]]
    /\ Returns("acknowledge_alert", alert_id, RowCount(alert_id) > 0)
    /\ UNCHANGED notStore

\* snooze_alert
snooze_alert(alert_id, until) ==
    /\ db_ret.n < MaxStoreCalls
    /\ db_alerts' = [k \in DOMAIN db_alerts |->
                        IF k = alert_id THEN SetSnoozedUntil(db_alerts[k], until)
                        ELSE db_alerts[k]]
    /\ Returns("snooze_alert", alert_id, RowCount(alert_id) > 0)
    /\ UNCHANGED notStore

\* init_db on a new database file
InitStore ==
    /\ db_alerts = <<>>
    /\ db_ret = NoCall
    /\ db_prev = NoCall

NextStore ==
    \/ \E k \in AlertKeys, a \in BOOLEAN, u \in {NoneValue} \cup Instants :
           insert_alert(k, a, u)
    \/ \E k \in AlertKeys : acknowledge_alert(k)
    \/ \E k \in AlertKeys, u \in Instants : snooze_alert(k, u)

(***************************************************************************)
(* The store: claims                                                       *)
(***************************************************************************)
\* C12: an acknowledged alert stays acknowledged under every store call;
\* acknowledge_alert returns true for an id that has a row, each time, and
\* leaves the row acknowledged and every other row as it was; for an id
\* without a row it returns false and changes no row.
C12_AcknowledgedForGood ==
    [][/\ \A k \in DOMAIN db_alerts :
              db_alerts[k].acknowledged =>
                  k \in DOMAIN db_alerts' /\ db_alerts'[k].acknowledged
       /\ (db_ret'.n # db_ret.n /\ db_ret'.op = "acknowledge_alert") =>
              IF db_ret'.id \in DOMAIN db_alerts
              THEN /\ db_ret'.result
                   /\ DOMAIN db_alerts' = DOMAIN db_alerts
                   /\ db_alerts'[db_ret'.id].acknowledged
                   /\ \A k \in DOMAIN db_alerts \ {db_ret'.id} :
                          db_alerts'[k] = db_alerts[k]
              ELSE ~db_ret'.result /\ db_alerts' = db_alerts]_vars

\* acknowledge_alert was called twice in a row on the same alert and returned
\* true both times.
C12_Witness ==
    /\ db_ret.op = "acknowledge_alert" /\ db_ret.result
    /\ db_prev.op = "acknowledge_alert" /\ db_prev.result
    /\ db_prev.id = db_ret.id
    /\ db_alerts[db_ret.id].acknowledged

\* C13: the snoozed_until of a row is only ever replaced by a later instant.
C13_SnoozedUntilOnlyLater ==
    [][\A k \in DOMAIN db_alerts :
           (k \in DOMAIN db_alerts' /\ db_alerts[k].snoozed_until # NoneValue) =>
               /\ db_alerts'[k].snoozed_until # NoneValue
               /\ db_alerts'[k].snoozed_until >= db_alerts[k].snoozed_until]_vars

(***************************************************************************)
(* _is_within_away_window, called on its own                               *)
(***************************************************************************)
\* the hours and minutes the windows and instants of the calls are built from
HourSamples == {0, 9, 17, 23}
MinuteSamples == {0, 30}

WindowSamples ==
    {AwayWindow(sh, sm, eh, em, days, TRUE) :
        sh \in HourSamples, sm \in MinuteSamples,
        eh \in HourSamples, em \in MinuteSamples, days \in {AllDays, 0..4}}

CallWindowLists ==
    {<<>>, <<SwitchedOff>>}
    \cup {<<w>> : w \in WindowSamples}
    \cup {<<OfficeHours, w>> : w \in WindowSamples}
    \cup {<<w, SwitchedOff>> : w \in WindowSamples}

CallInstants ==
    {Instant(wd, h, m) : wd \in {0, 5}, h \in HourSamples \cup {12},
                         m \in MinuteSamples \cup {29}}

NotCalled == [done |-> FALSE, value |-> FALSE]

\* the call returns
WindowCall ==
    /\ ~win.done
    /\ win' = [done |-> TRUE, value |-> _is_within_away_window(win_now, win_list)]
    /\ UNCHANGED <<win_now, win_list>>
    /\ UNCHANGED notWin

InitWindow ==
    /\ win_now \in CallInstants
    /\ win_list \in CallWindowLists
    /\ win = NotCalled

InitWindowAtRest ==
    /\ win_now = Instant(0, 0, 0)
    /\ win_list = <<>>
    /\ win = NotCalled

NextWindow == WindowCall

\* C14: the result of _is_within_away_window is false for the empty list,
\* and for any list it is true iff some window of the list holds the instant:
\* none does with start = end; with start < end the weekday is listed and
\* start <= minute < end; with start > end the weekday is listed and
\* minute >= start or minute < end.
C14_MembershipByMinute ==
    win.done =>
        /\ win_list = <<>> => ~win.value
        /\ win.value <=>
              \E i \in DOMAIN win_list :
                  LET w == win_list[i]
                      minute == 60 * win_now.hour + win_now.minute
                      s == 60 * w.start_hour + w.start_minute
                      e == 60 * w.end_hour + w.end_minute
                  IN CASE s = e -> FALSE
                       [] s < e -> win_now.weekday \in w.days /\ s <= minute /\ minute < e
                       [] s > e -> win_now.weekday \in w.days
                                   /\ (minute >= s \/ minute < e)

\* A single window that wraps midnight holds an instant of the early
\* morning, before its end.
C14_Witness ==
    /\ win.done /\ win.value
    /\ Len(win_list) = 1
    /\ win_list[1].start_hour > win_list[1].end_hour
    /\ win_now.hour < win_list[1].end_hour

(***************************************************************************)
(* alerts/email_notifier.py: EmailNotifier                                 *)
(***************************************************************************)
\* as Throttled, with the interval's end included
ThrottledInclusive(now) == last_sent # NoneValue /\ now - last_sent <= throttle

\* `self._last_sent and (now - self._last_sent) < self._throttle`
Throttled(now) == last_sent # NoneValue /\ now - last_sent < throttle

\* no message: the latest _send_batch has returned
NoMessage == [subject |-> NoneValue, body |-> <<>>]

\* the severity that ranks highest among the alerts
HighestOfAll(alerts, severity) ==
    CHOOSE v \in {severity[alerts[k]] : k \in DOMAIN alerts} :
        \A k \in DOMAIN alerts : SEVERITY_ORDER[severity[alerts[k]]] <= SEVERITY_ORDER[v]

\* `alerts[0].severity.value` in the subject
Highest(alerts, severity) == severity[alerts[1]]

\* f"PIDA: {len(alerts)} alert(s) - highest: {alerts[0].severity.value}": the
\* two values the text is formatted from
Subject(alerts, severity) ==
    [count |-> Len(alerts), highest |-> Highest(alerts, severity)]

\* body_parts: one part for each alert, in the order of the list, opening
\* with f"[{a.severity.value}] {a.message}"
Body(alerts, severity) ==
    [k \in DOMAIN alerts |-> [severity |-> severity[alerts[k]], message |-> alerts[k]]]

\* _send_batch from its start to `await asyncio.to_thread(self._send_smtp, msg)`,
\* entered with the given pending list: snapshot, clear, build the message
SendBatchBegin(pend, by, severity) ==
    IF pend = <<>>
    THEN pending' = pend /\ UNCHANGED <<sending, mail_msg>>
    ELSE /\ pending' = <<>>
         /\ sending' = Append(sending, [batch |-> pend, by |-> by])
         /\ mail_msg' = [subject |-> Subject(pend, severity),
                         body |-> Body(pend, severity)]

\* EmailNotifier.notify, up to its return or to the SMTP send
notify ==
    /\ n_notified < MaxNotified
    /\ n_notified' = n_notified + 1
    /\ \E severity \in AlertSeverities :
          mail_severity' = [mail_severity EXCEPT ![n_notified + 1] = severity]
    /\ LET pend == Append(pending, n_notified + 1)
           now == mail_now
       IN IF Throttled(now)
          THEN pending' = pend /\ UNCHANGED <<sending, mail_msg>>
          ELSE SendBatchBegin(pend, "notify", mail_severity')
    /\ UNCHANGED <<throttle, mail_now, last_sent, sent>>
    /\ UNCHANGED notMail

\* EmailNotifier.flush, up to its return or to the SMTP send
flush ==
    /\ IF pending # <<>>
          THEN SendBatchBegin(pending, "flush", mail_severity)
          ELSE UNCHANGED <<pending, sending, mail_msg>>
    /\ UNCHANGED <<throttle, mail_now, last_sent, sent, n_notified, mail_severity>>
    /\ UNCHANGED notMail

\* the sequence without its i-th element
Without(seq, i) == SubSeq(seq, 1, i - 1) \o SubSeq(seq, i + 1, Len(seq))

\* as PutBack, the failed batch dropped
PutBackNothing(pend, batch) == pend

\* `self._pending.extend(alerts)` in the except branch of _send_batch
PutBack(pend, batch) == pend \o batch

\* the SMTP send of the i-th suspended _send_batch ends, normally (ok) or by
\* raising; _send_batch runs to its end
SendDone(i, ok) ==
    /\ i \in DOMAIN sending
    /\ sending' = Without(sending, i)
    /\ IF ok
          THEN /\ last_sent' = mail_now
               /\ sent' = Append(sent, sending[i].batch)
               /\ UNCHANGED pending
          ELSE /\ pending' = PutBack(pending, sending[i].batch)
               /\ UNCHANGED <<last_sent, sent>>
    /\ mail_msg' = IF i = Len(sending) THEN NoMessage ELSE mail_msg
    /\ UNCHANGED <<throttle, mail_now, n_notified, mail_severity>>
    /\ UNCHANGED notMail

\* the clock advances
MailTick ==
    /\ mail_now < MaxMailClock
    /\ mail_now' = mail_now + 1
    /\ UNCHANGED <<throttle, last_sent, pending, sending, sent, n_notified,
                   mail_severity, mail_msg>>
    /\ UNCHANGED notMail

\* EmailNotifier.__init__
MailFresh ==
    /\ mail_now = 1
    /\ last_sent = NoneValue
    /\ pending = <<>>
    /\ sending = <<>>
    /\ sent = <<>>
    /\ n_notified = 0
    /\ mail_severity = [a \in 1..MaxNotified |-> NoneValue]
    /\ mail_msg = NoMessage

InitMail == throttle \in 0..MaxThrottle /\ MailFresh

InitMailAtRest == throttle = 0 /\ MailFresh

NextMail ==
    \/ notify
    \/ flush
    \/ \E i \in 1..MaxNotified, ok \in BOOLEAN : SendDone(i, ok)
    \/ MailTick

(***************************************************************************)
(* The email notifier: claims                                              *)
(***************************************************************************)
\* a step in which notify is called
NotifyCalled == n_notified' # n_notified

\* a step in which flush starts a send
FlushSends == n_notified' = n_notified /\ Len(sending') > Len(sending)

\* C16: notify appends its alert to pending; when a send succeeded less than
\* the throttle interval ago it sends nothing and the batch grows, otherwise
\* it starts exactly one send, of all pending alerts in order, and pending is
\* empty; a send started by flush carries all pending alerts and empties
\* pending, and flush starts none when pending is empty.
C16_ThrottleAndBatch ==
    [][/\ NotifyCalled =>
            LET pend == Append(pending, n_notified')
            IN IF last_sent # NoneValue /\ mail_now - last_sent < throttle
               THEN pending' = pend /\ sending' = sending
               ELSE /\ pending' = <<>>
                    /\ sending' = Append(sending, [batch |-> pend, by |-> "notify"])
       /\ FlushSends =>
            /\ pending # <<>>
            /\ pending' = <<>>
            /\ sending' = Append(sending, [batch |-> pending, by |-> "flush"])
       /\ (pending = <<>> /\ ~NotifyCalled) => Len(sending') <= Len(sending)]_vars

\* Three notify calls and a flush within the throttle interval: one message
\* with the first alert, then one with the other two.
C16_Witness ==
    /\ throttle > 0
    /\ sent = << <<1>>, <<2, 3>> >>
    /\ pending = <<>>
    /\ sending = <<>>

\* a step in which a send fails
SendFailed == Len(sending') < Len(sending) /\ sent' = sent

\* C17: when a send fails, its batch is put back at the front of pending, in
\* order and ahead of the alerts appended meanwhile, and last_sent is left
\* as it was.
C17_FailedBatchBackInFront ==
    [][SendFailed =>
          /\ \E i \in DOMAIN sending :
                /\ sending' = Without(sending, i)
                /\ pending' = sending[i].batch \o pending
          /\ last_sent' = last_sent]_vars

\* how many times alert a stands in the list
Occurrences(list, a) == Cardinality({i \in DOMAIN list : list[i] = a})

\* how many of the messages the server took include alert a
MessagesWith(a) == Cardinality({k \in DOMAIN sent : Occurrences(sent[k], a) > 0})

\* C31: whenever no send is in progress, every alert ever passed to notify
\* is either in pending exactly once or was included in exactly one
\* successfully sent message (once), never both and never neither.
C31_AlertsConserved ==
    sending = <<>> =>
        \A a \in 1..n_notified :
            \/ /\ Occurrences(pending, a) = 1
               /\ MessagesWith(a) = 0
            \/ /\ Occurrences(pending, a) = 0
               /\ MessagesWith(a) = 1
               /\ \A k \in DOMAIN sent : Occurrences(sent[k], a) <= 1

\* Two sends overlapped: the second succeeded with alert 2, alert 3 was
\* batched under the throttle, then the first send failed and alert 1 came
\* back behind alert 3.
C31_Witness ==
    /\ sending = <<>>
    /\ sent = << <<2>> >>
    /\ pending = <<3, 1>>

\* a step in which a _send_batch builds its message and starts the send
SendBegins == Len(sending') > Len(sending)

\* C40: the subject of every batch message names the number of alerts of
\* the batch and, as "highest", the severity of the first alert of the batch
\* in pending order, whether or not a later alert ranks higher; the body
\* lists every alert of the batch, with its severity, in pending order.
C40_SubjectAndBody ==
    [][SendBegins =>
          LET batch == sending'[Len(sending')].batch
          IN /\ batch = IF NotifyCalled THEN Append(pending, n_notified') ELSE pending
             /\ mail_msg'.subject.count = Len(batch)
             /\ mail_msg'.subject.highest = mail_severity'[batch[1]]
             /\ Len(mail_msg'.body) = Len(batch)
             /\ \A k \in DOMAIN batch :
                   /\ mail_msg'.body[k].message = batch[k]
                   /\ mail_msg'.body[k].severity = mail_severity'[batch[k]]]_vars

\* A message for the batch of alerts 2 and 3, the first LOW and the second
\* CRITICAL: the subject says 2 alerts, highest LOW.
C40_Witness ==
    /\ Len(sending) = 1
    /\ sending[1].batch = <<2, 3>>
    /\ mail_severity[2] = "LOW" /\ mail_severity[3] = "CRITICAL"
    /\ mail_msg.subject = [count |-> 2, highest |-> "LOW"]
    /\ mail_msg.body = << [severity |-> "LOW", message |-> 2],
                          [severity |-> "CRITICAL", message |-> 3] >>

(***************************************************************************)
(* monitors/input_monitor.py: InputMonitor                                 *)
(*                                                                         *)
(* One pass of _poll_loop, from the read of the idle oracle to the sleep,  *)
(* is one step.  Seconds are integers.  Every sample is kept with the      *)
(* number of events published before it, so that the events of a sample   *)
(* can be told from the stream.                                            *)
(***************************************************************************)
PollIntervals == {1, 2}
StreakThresholds == {1, 3}
InputWindowLists == {<<>>, <<OfficeHours>>, <<SwitchedOff>>}
IdleSamples == 0..2        \* what a native idle oracle answers
SentinelIdle == 9999       \* lambda: 9999.0

\* a native oracle answers just below poll_interval or poll_interval itself
IdleAnswers ==
    IF idle_oracle = "sentinel" THEN {SentinelIdle}
    ELSE {poll_interval - 1, poll_interval}

\* as StreakOpen, with a streak of zero seconds counted as open
StreakOpenOrZero(streak) == streak >= 0

\* the idle branch: if self._active_streak > 0
StreakOpen(streak) == streak > 0

\* as ReachedThreshold, the threshold itself not counted as reached
AboveThreshold(streak) == streak > streak_threshold

\* self._active_streak >= self._streak_threshold
ReachedThreshold(streak) == streak >= streak_threshold

\* as FirstOfStreak, every streak of at least one pass counted as fresh
StreakStarted(streak) == streak >= poll_interval

\* elif self._active_streak == self._poll_interval
FirstOfStreak(streak) == streak = poll_interval

\* as StreakAfterAlert, the streak left as it is
StreakKept(streak) == streak

\* self._active_streak = 0.0, after the away alert is published
StreakAfterAlert(streak) == 0

\* the sample as the loop read it, and what the pass left behind
Sampled(idle, now, before, after, raised) ==
    [idle |-> idle, now |-> now, before |-> before, after |-> after,
     raised |-> raised, published |-> Len(input_published)]

InputEventId == EventId(Len(input_published) + 1)

\* InputMonitor.start
InputStart ==
    /\ IF input_running
       THEN UNCHANGED <<input_running, active_streak, input_started>>
       ELSE /\ input_running' = TRUE
            /\ active_streak' = 0
            /\ input_started' = Len(input_published)
    /\ UNCHANGED <<poll_interval, streak_threshold, idle_oracle, input_windows,
                   input_sampled, input_published>>
    /\ UNCHANGED notInput

\* InputMonitor.stop: the poll task is cancelled in its sleep and awaited
InputStop ==
    /\ input_running' = FALSE
    /\ UNCHANGED <<poll_interval, streak_threshold, idle_oracle, input_windows,
                   active_streak, input_sampled, input_published, input_started>>
    /\ UNCHANGED notInput

\* InputMonitor._poll_loop: one pass in which the oracle answers idle at now
Sample(idle, now) ==
    /\ input_running
    /\ Len(input_sampled) < MaxSamples
    /\ idle \in IdleAnswers
    /\ IF idle < poll_interval
       THEN LET streak == active_streak + poll_interval
            IN IF /\ ReachedThreshold(streak)
                  /\ input_windows # <<>>
                  /\ _is_within_away_window(now, input_windows)
               THEN /\ input_published' = Append(input_published,
                            InputAwayEvent(InputEventId, idle, streak, now))
                    /\ active_streak' = StreakAfterAlert(streak)
               ELSE IF FirstOfStreak(streak)
               THEN /\ input_published' = Append(input_published,
                            InputDetectedEvent(InputEventId, idle, now))
                    /\ active_streak' = streak
               ELSE /\ input_published' = input_published
                    /\ active_streak' = streak
       ELSE /\ input_published' =
                  IF StreakOpen(active_streak)
                  THEN Append(input_published,
                              IdleStartedEvent(InputEventId, active_streak, now))
                  ELSE input_published
            /\ active_streak' = 0
    /\ input_sampled' = Append(input_sampled,
           Sampled(idle, now, active_streak, active_streak', FALSE))
    /\ UNCHANGED <<poll_interval, streak_threshold, idle_oracle, input_windows,
                   input_running, input_started>>
    /\ UNCHANGED notInput

\* a pass that raised took no instant
NoInstant == Instant(0, 0, 0)

\* InputMonitor._poll_loop: a pass in which the native oracle raises; the
\* except clause logs it and the loop sleeps
SampleRaises ==
    /\ input_running
    /\ Len(input_sampled) < MaxSamples
    /\ idle_oracle = "native"
    /\ input_sampled' = Append(input_sampled,
           Sampled(0, NoInstant, active_streak, active_streak, TRUE))
    /\ UNCHANGED <<poll_interval, streak_threshold, idle_oracle, input_windows,
                   active_streak, input_running, input_published, input_started>>
    /\ UNCHANGED notInput

\* InputMonitor.__init__
InputFresh ==
    /\ active_streak = 0
    /\ input_running = FALSE
    /\ input_sampled = <<>>
    /\ input_published = <<>>
    /\ input_started = 0

InitInput ==
    /\ poll_interval \in PollIntervals
    /\ streak_threshold \in StreakThresholds
    /\ idle_oracle \in {"native", "sentinel"}
    /\ input_windows \in InputWindowLists
    /\ InputFresh

InitInputAtRest ==
    /\ poll_interval = 1
    /\ streak_threshold = 1
    /\ idle_oracle = "native"
    /\ input_windows = <<>>
    /\ InputFresh

NextInput ==
    \/ InputStart
    \/ InputStop
    \/ \E idle \in IdleSamples \cup {SentinelIdle}, now \in InstantSamples :
          Sample(idle, now)
    \/ SampleRaises

(***************************************************************************)
(* The input producer: claims                                              *)
(***************************************************************************)
\* the actions of the events published on the i-th pass
EventsOfSample(i) ==
    LET from == input_sampled[i].published
        to == IF i < Len(input_sampled) THEN input_sampled[i + 1].published
              ELSE Len(input_published)
    IN {input_published[k].action : k \in (from + 1)..to}

ActiveSample(i) ==
    ~input_sampled[i].raised /\ input_sampled[i].idle < poll_interval
IdleSample(i) ==
    ~input_sampled[i].raised /\ input_sampled[i].idle >= poll_interval
AwaySample(i) == "active_during_away" \in EventsOfSample(i)

\* ceil(streak_threshold / poll_interval)
SamplesToThreshold == (streak_threshold + poll_interval - 1) \div poll_interval

\* C21: on an active sample (idle < poll_interval) the streak grows by
\* poll_interval; active_during_away is published on that sample iff the grown
\* streak is at least streak_threshold and some away window covers the sample
\* instant, and the streak is then 0; no other sample publishes it; two
\* active_during_away samples have at least ceil(streak_threshold /
\* poll_interval) active samples from the first (excluded) to the second.
C21_AwayAlertOnThreshold ==
    \A i \in DOMAIN input_sampled :
       LET s == input_sampled[i]
           grown == s.before + poll_interval
       IN /\ ActiveSample(i) =>
                /\ AwaySample(i) <=> /\ grown >= streak_threshold
                                     /\ LiesInSomeWindow(s.now, input_windows)
                /\ s.after = IF AwaySample(i) THEN 0 ELSE grown
          /\ ~ActiveSample(i) => ~AwaySample(i)
          /\ \A j \in DOMAIN input_sampled :
                (i < j /\ AwaySample(i) /\ AwaySample(j)) =>
                   Cardinality({k \in (i + 1)..j : ActiveSample(k)}) >= SamplesToThreshold

\* two away alerts of a user who stays active, the threshold more than one
\* pass long
C21_Witness ==
    /\ streak_threshold > poll_interval
    /\ \E i, j \in DOMAIN input_sampled :
          /\ i < j /\ AwaySample(i) /\ AwaySample(j)
          /\ \A k \in i..j : ActiveSample(k)

\* C22: input_detected is published exactly on an active sample that is the
\* first of a fresh streak (the streak equals poll_interval after the
\* increment) and publishes no active_during_away; idle_started is published
\* exactly on an idle sample (idle >= poll_interval) before which the streak
\* was above 0; after every idle sample the streak is 0.
C22_StreakEvents ==
    \A i \in DOMAIN input_sampled :
       LET s == input_sampled[i]
       IN /\ "input_detected" \in EventsOfSample(i) <=>
                /\ ActiveSample(i)
                /\ s.before + poll_interval = poll_interval
                /\ ~AwaySample(i)
          /\ "idle_started" \in EventsOfSample(i) <=> (IdleSample(i) /\ s.before > 0)
          /\ IdleSample(i) => s.after = 0

\* a streak reported at its first sample and at its end, and the first sample
\* of another streak taken by the away alert
C22_Witness ==
    \E i, j, k \in DOMAIN input_sampled :
       /\ i < j
       /\ "input_detected" \in EventsOfSample(i)
       /\ "idle_started" \in EventsOfSample(j)
       /\ AwaySample(k) /\ input_sampled[k].before = 0

\* C23: every idle_started of the stream has an input_detected before it that
\* comes after the previous idle_started and after the last start.
C23_IdleStartedAfterDetected ==
    \A k \in DOMAIN input_published :
       (k > input_started /\ input_published[k].action = "idle_started") =>
          \E d \in (input_started + 1)..(k - 1) :
             /\ input_published[d].action = "input_detected"
             /\ \A e \in (d + 1)..(k - 1) : input_published[e].action # "idle_started"

\* after a restart: a streak that an away alert ended, then one that began
\* with input_detected and ended with idle_started
C23_Witness ==
    /\ input_started > 0
    /\ Len(input_published) >= input_started + 3
    /\ input_published[input_started + 1].action = "active_during_away"
    /\ input_published[Len(input_published)].action = "idle_started"

(***************************************************************************)
(* The producers without their oracles: claims                             *)
(***************************************************************************)
\* C19: a producer whose oracle is unavailable degrades without failing.  On
\* the always-idle sentinel the input producer publishes no event, however
\* many samples it takes; with the event log unreadable (every read returns
\* nothing) the session producer publishes no event, and while it is running
\* its polling task is at some position of its loop, never ended.
C19_NoOracleNoEvent ==
    /\ idle_oracle = "sentinel" => input_published = <<>>
    /\ log_oracle = "missing" =>
          /\ sess_published = <<>>
          /\ sess_running => sess.pc \in {"top", "fetch", "sleep"}

\* the session producer, its log unreadable, has finished a polling cycle whose
\* interval holds a record that it publishes when the log can be read
C19_Witness ==
    /\ log_oracle = "missing"
    /\ sess_running
    /\ sess.pc = "sleep"
    /\ last_read_time = sess.now
    /\ \E i \in DOMAIN evlog :
          /\ SessionAction(evlog[i].event_id) # "none"
          /\ sess.since < evlog[i].timestamp
          /\ evlog[i].timestamp <= sess.now

(***************************************************************************)
(* models/alert.py, models/config.py: construction of a record             *)
(*                                                                         *)
(* pydantic validates each argument against the annotation of its field:   *)
(* a Severity field takes a member's value, an int field an integer, a str *)
(* field a string.  The classes declare no validator and no constraint.    *)
(***************************************************************************)
SeverityInputs ==
    {StrV("HIGH"), StrV("LOW"), StrV("INVALID"), StrV("high"), IntV(3)}
HourInputs == {IntV(0 - 1), IntV(0), IntV(23), IntV(24), StrV("nine")}
MinuteInputs == {IntV(0), IntV(59), IntV(60)}

IsStr(v) == v[1] = "str"
IsInt(v) == v[1] = "int"

\* severity: Severity
IsSeverityMember(v) == IsStr(v) /\ v[2] \in Severity
\* min_severity: str, dashboard_min_severity: str, toast_min_severity: str
IsSeverityField(v) == IsStr(v)
\* start_hour: int  # 0-23, end_hour: int  # 0-23
IsHourField(v) == IsInt(v)
\* start_minute: int = 0, end_minute: int = 0
IsMinuteField(v) == IsInt(v)

Raised(valid) == IF valid THEN "none" ELSE "ValidationError"

NothingMade == [class |-> "none", args |-> <<>>, raised |-> "none"]

\* Alert(severity=severity, message="test")
NewAlert(severity) ==
    /\ made' = [class |-> "Alert", args |-> <<severity>>,
                raised |-> Raised(IsSeverityMember(severity))]
    /\ UNCHANGED notCfg

\* AwayWindow(start_hour=sh, start_minute=sm, end_hour=eh, end_minute=em)
NewAwayWindow(sh, sm, eh, em) ==
    /\ made' = [class |-> "AwayWindow", args |-> <<sh, sm, eh, em>>,
                raised |-> Raised(/\ IsHourField(sh) /\ IsMinuteField(sm)
                                  /\ IsHourField(eh) /\ IsMinuteField(em))]
    /\ UNCHANGED notCfg

\* AlertConfig(dashboard_min_severity=dashboard, toast_min_severity=toast,
\*             email={"min_severity": email})
NewAlertConfig(dashboard, toast, email) ==
    /\ made' = [class |-> "AlertConfig", args |-> <<dashboard, toast, email>>,
                raised |-> Raised(/\ IsSeverityField(dashboard)
                                  /\ IsSeverityField(toast)
                                  /\ IsSeverityField(email))]
    /\ UNCHANGED notCfg

InitConfig == made = NothingMade

NextConfig ==
    \/ \E severity \in SeverityInputs : NewAlert(severity)
    \/ \E sh, eh \in HourInputs, sm, em \in MinuteInputs :
          NewAwayWindow(sh, sm, eh, em)
    \/ \E dashboard, toast, email \in SeverityInputs :
          NewAlertConfig(dashboard, toast, email)

(***************************************************************************)
(* Construction of a record: claims                                        *)
(***************************************************************************)
UnknownSeverity(v) == ~(IsStr(v) /\ v[2] \in Severity)
OutsideRange(v, last) == ~(IsInt(v) /\ v[2] \in 0..last)

Malformed ==
    \/ made.class \in {"Alert", "AlertConfig"} /\
          \E i \in DOMAIN made.args : UnknownSeverity(made.args[i])
    \/ made.class = "AwayWindow" /\
          \/ OutsideRange(made.args[1], 23) \/ OutsideRange(made.args[3], 23)
          \/ OutsideRange(made.args[2], 59) \/ OutsideRange(made.args[4], 59)

\* C20: constructing an Alert with an unknown severity string, a
\* configuration record with an unknown severity string, or an AwayWindow
\* with an hour or minute outside its wall-clock range raises ValidationError.
C20_MalformedRaises == Malformed => made.raised = "ValidationError"

(***************************************************************************)
(* monitors/folder_monitor.py: FolderMonitor                               *)
(*                                                                         *)
(* The watcher thread reports primitives to _Handler; an event it builds   *)
(* is handed to the loop with call_soon_threadsafe, lands on the bridge    *)
(* queue and is published by the drain task.  The n-th event handed over   *)
(* is event n.  start and stop are called one after the other.             *)
(***************************************************************************)
FolderLists == {<<>>, <<"/docs">>}

\* a watchdog event: its type, is_directory, src_path and dest_path
Primitive(kind, is_directory, src_path, dest_path) ==
    [kind |-> kind, is_directory |-> is_directory, src_path |-> src_path,
     dest_path |-> dest_path]

\* the primitives the watcher reports in the model
Primitives ==
    {Primitive(k, d, Path("/docs", "a.txt"), NoPath) :
        k \in DOMAIN _ACTION_MAP, d \in BOOLEAN}
    \cup {Primitive("moved", d, Path("/docs", "a.txt"), dest) :
            d \in BOOLEAN, dest \in {Path("/docs", "b.txt"), Path("/tmp", "a.txt")}}

\* as Discarded, with directories let through
DiscardedNever(prim) == FALSE

\* `if not event.is_directory` in the four callbacks of _Handler
Discarded(prim) == prim.is_directory

\* _Handler.on_created, on_modified, on_deleted, on_moved: the event built
\* for the primitive and handed to _enqueue, NoEvent when there is none
on_primitive(prim, n) ==
    IF Discarded(prim) THEN NoEvent
    ELSE IF prim.kind = "moved"
    THEN FolderMovedEvent(EventId(n), prim.src_path, prim.dest_path, NoInstant)
    ELSE FolderBridgeEvent(EventId(n), prim.kind, prim.src_path, NoInstant)

\* as CallSoon, with the callback put ahead of the scheduled ones
CallSoonFirst(callbacks, n) == <<n>> \o callbacks

\* loop.call_soon_threadsafe(self._bridge_queue.put_nowait, event)
CallSoon(callbacks, n) == Append(callbacks, n)

\* as NothingToWatch, for a start that never takes the early return
AlwaysToWatch == FALSE

\* `if not self._folders` in start
NothingToWatch == fm_folders = <<>>

NoPrimitive == [prim |-> Primitive("none", FALSE, NoPath, NoPath), event |-> NoEvent,
                n |-> 0]

Called(op) == [n |-> fm_calls.n + 1, op |-> op]

\* FolderMonitor.start
FolderStart ==
    /\ ~fm_stopping
    /\ fm_calls.n < MaxFolderCalls
    /\ fm_calls' = Called("start")
    /\ IF fm_running \/ NothingToWatch
          THEN UNCHANGED <<fm_running, fm_observers, fm_observer, fm_tasks,
                           fm_drain_task>>
          ELSE /\ fm_running' = TRUE
               /\ fm_observers' = Append(fm_observers,
                                         [state |-> "started", watches |-> fm_folders])
               /\ fm_observer' = Len(fm_observers) + 1
               /\ fm_tasks' = Append(fm_tasks, [pc |-> "get", ev |-> 0])
               /\ fm_drain_task' = Len(fm_tasks) + 1
    /\ UNCHANGED <<fm_folders, fm_stopping, fm_callbacks, fm_bridge, fm_published,
                   fm_handed, fm_last>>
    /\ UNCHANGED notFolder

\* FolderMonitor.stop up to `await self._drain_task`; with no drain task it
\* runs to its end
FolderStopBegin ==
    /\ ~fm_stopping
    /\ fm_calls.n < MaxFolderCalls
    /\ fm_calls' = Called("stop")
    /\ fm_running' = FALSE
    /\ IF fm_observer # 0
          THEN /\ fm_observers' = [fm_observers EXCEPT ![fm_observer].state = "stopped"]
               /\ fm_observer' = 0
          ELSE UNCHANGED <<fm_observers, fm_observer>>
    /\ IF fm_drain_task # 0
          THEN /\ fm_tasks' = [fm_tasks EXCEPT ![fm_drain_task].pc = "cancelling"]
               /\ fm_stopping' = TRUE
          ELSE UNCHANGED <<fm_tasks, fm_stopping>>
    /\ UNCHANGED <<fm_folders, fm_drain_task, fm_callbacks, fm_bridge, fm_published,
                   fm_handed, fm_last>>
    /\ UNCHANGED notFolder

\* the cancelled drain task is scheduled: CancelledError ends it, at the get
\* or in the publish, and the event it held goes with it
DrainUnwind ==
    /\ fm_drain_task # 0
    /\ fm_tasks[fm_drain_task].pc = "cancelling"
    /\ fm_tasks' = [fm_tasks EXCEPT ![fm_drain_task] = [pc |-> "cancelled", ev |-> 0]]
    /\ UNCHANGED <<fm_folders, fm_running, fm_observers, fm_observer, fm_drain_task,
                   fm_stopping, fm_callbacks, fm_bridge, fm_published, fm_handed,
                   fm_last, fm_calls>>
    /\ UNCHANGED notFolder

\* FolderMonitor.stop after `await self._drain_task`
FolderStopEnd ==
    /\ fm_stopping
    /\ fm_tasks[fm_drain_task].pc = "cancelled"
    /\ fm_drain_task' = 0
    /\ fm_stopping' = FALSE
    /\ UNCHANGED <<fm_folders, fm_running, fm_observers, fm_observer, fm_tasks,
                   fm_callbacks, fm_bridge, fm_published, fm_handed, fm_last, fm_calls>>
    /\ UNCHANGED notFolder

\* the watcher thread of a started observer reports a primitive: _Handler
\* builds the event, if any, and _enqueue schedules its put on the loop
WatcherCallback(prim) ==
    /\ \E o \in DOMAIN fm_observers : fm_observers[o].state = "started"
    /\ fm_handed < MaxWatched
    /\ LET event == on_primitive(prim, fm_handed + 1)
       IN IF event = NoEvent
          THEN /\ fm_last' = [prim |-> prim, event |-> event, n |-> 0]
               /\ UNCHANGED <<fm_callbacks, fm_handed>>
          ELSE /\ fm_last' = [prim |-> prim, event |-> event, n |-> fm_handed + 1]
               /\ fm_callbacks' = CallSoon(fm_callbacks, fm_handed + 1)
               /\ fm_handed' = fm_handed + 1
    /\ UNCHANGED <<fm_folders, fm_running, fm_observers, fm_observer, fm_tasks,
                   fm_drain_task, fm_stopping, fm_bridge, fm_published, fm_calls>>
    /\ UNCHANGED notFolder

\* the loop runs the oldest scheduled callback: put_nowait on the bridge queue
LoopRunsCallback ==
    /\ fm_callbacks # <<>>
    /\ fm_bridge' = Append(fm_bridge, Head(fm_callbacks))
    /\ fm_callbacks' = Tail(fm_callbacks)
    /\ UNCHANGED <<fm_folders, fm_running, fm_observers, fm_observer, fm_tasks,
                   fm_drain_task, fm_stopping, fm_published, fm_handed, fm_last,
                   fm_calls>>
    /\ UNCHANGED notFolder

\* _drain_loop: `await asyncio.wait_for(self._bridge_queue.get(), ...)` returns
\* an event.  (A timeout on the empty queue leads through `continue` and
\* `while self._running` back to the same get: cancel is the only way out.)
DrainGet ==
    /\ fm_drain_task # 0
    /\ fm_tasks[fm_drain_task].pc = "get"
    /\ fm_bridge # <<>>
    /\ LET got == QueueGet(fm_bridge)
       IN /\ fm_bridge' = got.rest
          /\ fm_tasks' = [fm_tasks EXCEPT ![fm_drain_task] =
                              [pc |-> "publish", ev |-> got.item]]
    /\ UNCHANGED <<fm_folders, fm_running, fm_observers, fm_observer, fm_drain_task,
                   fm_stopping, fm_callbacks, fm_published, fm_handed, fm_last,
                   fm_calls>>
    /\ UNCHANGED notFolder

\* _drain_loop: `await self._bus.publish(event)` returns, at once or after
\* the bus made room; the loop is back at the get
DrainPublish ==
    /\ fm_drain_task # 0
    /\ fm_tasks[fm_drain_task].pc = "publish"
    /\ fm_published' = Append(fm_published, fm_tasks[fm_drain_task].ev)
    /\ fm_tasks' = [fm_tasks EXCEPT ![fm_drain_task] = [pc |-> "get", ev |-> 0]]
    /\ UNCHANGED <<fm_folders, fm_running, fm_observers, fm_observer, fm_drain_task,
                   fm_stopping, fm_callbacks, fm_bridge, fm_handed, fm_last, fm_calls>>
    /\ UNCHANGED notFolder

\* FolderMonitor.__init__
FolderFresh ==
    /\ fm_running = FALSE
    /\ fm_observers = <<>>
    /\ fm_observer = 0
    /\ fm_tasks = <<>>
    /\ fm_drain_task = 0
    /\ fm_stopping = FALSE
    /\ fm_callbacks = <<>>
    /\ fm_bridge = <<>>
    /\ fm_published = <<>>
    /\ fm_handed = 0
    /\ fm_last = NoPrimitive
    /\ fm_calls = [n |-> 0, op |-> "none"]

InitFolder == fm_folders \in FolderLists /\ FolderFresh

InitFolderAtRest == fm_folders = <<>> /\ FolderFresh

NextFolder ==
    \/ FolderStart
    \/ FolderStopBegin
    \/ DrainUnwind
    \/ FolderStopEnd
    \/ \E prim \in Primitives : WatcherCallback(prim)
    \/ LoopRunsCallback
    \/ DrainGet
    \/ DrainPublish

\* the loop runs its callbacks and the drain task whenever they can take a
\* step, and the bus takes every event in the end
FairFolder ==
    /\ WF_vars(LoopRunsCallback)
    /\ WF_vars(DrainGet)
    /\ WF_vars(DrainPublish)

(***************************************************************************)
(* The folder producer: claims                                             *)
(***************************************************************************)
\* the numbers of the list grow from left to right
Increasing(list) == \A i, j \in DOMAIN list : i < j => list[i] < list[j]

\* no drain task was cancelled so far
NeverCancelled == \A t \in DOMAIN fm_tasks : fm_tasks[t].pc \in {"get", "publish"}

\* event n is on its way: scheduled on the loop, on the bridge queue or held
\* by the drain task
InBridge(n) ==
    \/ n \in Range(fm_callbacks) \cup Range(fm_bridge)
    \/ \E t \in DOMAIN fm_tasks : fm_tasks[t].ev = n

\* C33: a watcher callback never blocks on the bus: it only schedules the
\* put on the unbounded bridge queue, whatever the drain task is doing; the
\* events are published at most once and in the order in which the watcher
\* handed them over, without a gap as long as the producer was never
\* stopped; and every event on its way from the watcher is published unless
\* the producer stops running.
C33_BridgeOnceInOrder ==
    /\ [](/\ Increasing(fm_published)
          /\ \A i \in DOMAIN fm_published : fm_published[i] \in 1..fm_handed
          /\ NeverCancelled => fm_published = [i \in 1..Len(fm_published) |-> i])
    /\ [][fm_handed' # fm_handed =>
             /\ Range(fm_callbacks') = Range(fm_callbacks) \cup {fm_handed'}
             /\ Len(fm_callbacks') = Len(fm_callbacks) + 1
             /\ UNCHANGED <<fm_bridge, fm_tasks, fm_published>>]_vars
    /\ \A n \in 1..MaxWatched :
          InBridge(n) ~> (n \in Range(fm_published) \/ ~fm_running)

\* Event 1 is published, the drain task is held in the publish of event 2,
\* and the watcher has handed over event 3 meanwhile.
C33_Witness ==
    /\ fm_running
    /\ fm_published = <<1>>
    /\ fm_tasks[fm_drain_task] = [pc |-> "publish", ev |-> 2]
    /\ fm_callbacks = <<3>>

\* C34: a created/modified/deleted primitive on a non-directory yields
\* file_created/file_modified/file_deleted with target = src_path; a moved
\* primitive on a non-directory yields file_renamed iff parent(src) =
\* parent(dest) and file_moved otherwise, with target = dest_path and detail
\* = {src_path, dest_path}; a primitive on a directory yields no event.
C34_FolderActionMapping ==
    LET p == fm_last.prim
        e == fm_last.event
    IN p.kind # "none" =>
          IF p.is_directory THEN e = NoEvent /\ fm_last.n = 0
          ELSE /\ fm_last.n > 0
               /\ e.source = "folder_monitor"
               /\ p.kind = "created" => e.action = "file_created" /\ e.target = p.src_path
               /\ p.kind = "modified" => e.action = "file_modified" /\ e.target = p.src_path
               /\ p.kind = "deleted" => e.action = "file_deleted" /\ e.target = p.src_path
               /\ p.kind = "moved" =>
                     /\ e.action = IF p.src_path[1] = p.dest_path[1]
                                   THEN "file_renamed" ELSE "file_moved"
                     /\ e.target = p.dest_path
                     /\ e.detail = [src_path |-> StrV(p.src_path),
                                    dest_path |-> StrV(p.dest_path)]

\* a.txt was renamed to b.txt in /docs, and the event was handed over.
C34_Witness ==
    /\ fm_last.prim = Primitive("moved", FALSE, Path("/docs", "a.txt"), Path("/docs", "b.txt"))
    /\ fm_last.event.action = "file_renamed"
    /\ fm_last.n \in Range(fm_callbacks)

\* a step in which start or stop is called
FolderCalled(op) == fm_calls'.n # fm_calls.n /\ fm_calls'.op = op

\* C35: start with no folders configured is a no-op (running stays false, no
\* watcher is scheduled, no drain task is created); start on a running
\* producer is a no-op; after stop returns, running is false, the watcher
\* has been stopped and the drain task has terminated; stop on a producer
\* that was never started changes nothing.
C35_FolderLifecycle ==
    /\ [](fm_folders = <<>> =>
             ~fm_running /\ fm_observers = <<>> /\ fm_tasks = <<>>)
    /\ []((fm_calls.op = "stop" /\ ~fm_stopping) =>
             /\ ~fm_running
             /\ fm_observer = 0
             /\ \A o \in DOMAIN fm_observers : fm_observers[o].state = "stopped"
             /\ fm_drain_task = 0
             /\ \A t \in DOMAIN fm_tasks : fm_tasks[t].pc = "cancelled")
    /\ [][/\ (FolderCalled("start") /\ (fm_running \/ fm_folders = <<>>)) =>
                UNCHANGED <<fm_folders, fm_running, fm_observers, fm_observer,
                            fm_tasks, fm_drain_task, fm_stopping, fm_callbacks,
                            fm_bridge, fm_published, fm_handed, fm_last>>
          /\ (FolderCalled("stop") /\ fm_observers = <<>>) =>
                UNCHANGED <<fm_folders, fm_running, fm_observers, fm_observer,
                            fm_tasks, fm_drain_task, fm_stopping, fm_callbacks,
                            fm_bridge, fm_published, fm_handed, fm_last>>]_vars

\* start, a second start that changed nothing, and a stop that has returned
\* after it cancelled the drain task in its publish: one observer, stopped.
C35_Witness ==
    /\ fm_calls = [n |-> 3, op |-> "stop"]
    /\ ~fm_stopping
    /\ Len(fm_observers) = 1
    /\ Len(fm_tasks) = 1
    /\ fm_handed = 1
    /\ fm_published = <<>>
    /\ fm_bridge = <<>>
    /\ fm_callbacks = <<>>

(***************************************************************************)
(* main.py: lifespan; api/routes.py: POST /config/away-windows             *)
(*                                                                         *)
(* The configuration is loaded and the engine and the input producer are   *)
(* constructed with the loaded windows; lifespan then starts the           *)
(* components one by one, serves requests, and at shutdown stops them one  *)
(* by one.  A component is a name here; what start and stop do to it is    *)
(* modelled with the component.                                            *)
(***************************************************************************)
Producers == {"folder", "input", "session"}

\* lifespan before `yield`: the start calls in program order
StartupOrder == <<"bus", "engine", "folder", "input", "session">>

\* as ShutdownOrder, with the bus stopped first
ShutdownBusFirst == <<"bus", "engine", "folder", "input", "session">>

\* lifespan after `yield`: the stop calls in program order
ShutdownOrder == <<"session", "input", "folder", "engine", "bus">>

\* `if folder_paths:` at startup, `if _folder_monitor:` at shutdown; the
\* other components are always constructed
Constructed(c) == c # "folder" \/ sup_folders

\* the component is started and not stopped
Up(c) ==
    /\ \E i \in DOMAIN sup_log : sup_log[i] = <<"start", c>>
    /\ ~\E i \in DOMAIN sup_log : sup_log[i] = <<"stop", c>>

NotEvaluated == [by |-> "none", now |-> NoInstant, in_away |-> FALSE]

\* lifespan before `yield`: the next component is started, if constructed
LifespanStart ==
    /\ sup_pc.phase = "startup"
    /\ LET c == StartupOrder[sup_pc.i]
       IN sup_log' = IF Constructed(c) THEN Append(sup_log, <<"start", c>>)
                     ELSE sup_log
    /\ sup_pc' = IF sup_pc.i < Len(StartupOrder)
                 THEN [sup_pc EXCEPT !.i = @ + 1]
                 ELSE [phase |-> "serving", i |-> 0]
    /\ UNCHANGED <<sup_folders, db_away_windows, sup_posted, sup_eval>>
    /\ UNCHANGED notSup

\* the application shuts down: lifespan resumes after `yield`
LifespanResume ==
    /\ sup_pc.phase = "serving"
    /\ sup_pc' = [phase |-> "shutdown", i |-> 1]
    /\ UNCHANGED <<sup_folders, sup_log, db_away_windows, sup_posted, sup_eval>>
    /\ UNCHANGED notSup

\* lifespan after `yield`: the next component is stopped, if constructed
LifespanStop ==
    /\ sup_pc.phase = "shutdown"
    /\ LET c == ShutdownOrder[sup_pc.i]
       IN sup_log' = IF Constructed(c) THEN Append(sup_log, <<"stop", c>>)
                     ELSE sup_log
    /\ sup_pc' = IF sup_pc.i < Len(ShutdownOrder)
                 THEN [sup_pc EXCEPT !.i = @ + 1]
                 ELSE [phase |-> "stopped", i |-> 0]
    /\ UNCHANGED <<sup_folders, db_away_windows, sup_posted, sup_eval>>
    /\ UNCHANGED notSup

\* routes.set_away_windows (POST /config/away-windows): db.set_setting, and
\* the answer "saved"
post_away_windows(windows) ==
    /\ sup_pc.phase = "serving"
    /\ db_away_windows' = windows
    /\ sup_posted' = TRUE
    /\ sup_eval' = NotEvaluated
    /\ UNCHANGED <<sup_pc, sup_folders, sup_log>>
    /\ UNCHANGED notSup

\* TimelineEngine._evaluate tests the instant of an event it handles
EngineEvaluates(now) ==
    /\ Up("bus") /\ Up("engine")
    /\ sup_eval' = [by |-> "engine", now |-> now,
                    in_away |-> IF away_windows # <<>>
                                THEN _is_within_away_window(now, away_windows)
                                ELSE FALSE]
    /\ UNCHANGED <<sup_pc, sup_folders, sup_log, db_away_windows, sup_posted>>
    /\ UNCHANGED notSup

\* InputMonitor._poll_loop tests the instant of a sample
InputEvaluates(now) ==
    /\ Up("input")
    /\ sup_eval' = [by |-> "input", now |-> now,
                    in_away |-> /\ input_windows # <<>>
                                /\ _is_within_away_window(now, input_windows)]
    /\ UNCHANGED <<sup_pc, sup_folders, sup_log, db_away_windows, sup_posted>>
    /\ UNCHANGED notSup

\* lifespan is entered
SupervisorFresh ==
    /\ sup_pc = [phase |-> "startup", i |-> 1]
    /\ sup_log = <<>>
    /\ sup_posted = FALSE
    /\ sup_eval = NotEvaluated

InitSupervisor ==
    /\ sup_folders \in BOOLEAN
    /\ db_away_windows \in WindowLists
    /\ SupervisorFresh

InitSupervisorAtRest ==
    /\ sup_folders = FALSE
    /\ db_away_windows = <<>>
    /\ SupervisorFresh

\* TimelineEngine(_bus, away_windows=windows, on_alert=on_alert), with the
\* windows _load_config_from_db read
EngineConstructed ==
    /\ away_windows = db_away_windows
    /\ has_on_alert = TRUE
    /\ EngineFresh

\* InputMonitor(_bus, poll_interval=..., away_windows=windows)
InputConstructed ==
    /\ poll_interval = 1
    /\ streak_threshold = 1
    /\ idle_oracle = "native"
    /\ input_windows = db_away_windows
    /\ InputFresh

NextSupervisor ==
    \/ LifespanStart
    \/ LifespanResume
    \/ LifespanStop
    \/ \E windows \in WindowLists : post_away_windows(windows)
    \/ \E now \in InstantSamples : EngineEvaluates(now)
    \/ \E now \in InstantSamples : InputEvaluates(now)

(***************************************************************************)
(* The supervisor: claims                                                  *)
(***************************************************************************)
\* the components lifespan has called op on, in the order of the calls
CallsOf(op) ==
    LET calls == SelectSeq(sup_log, LAMBDA c : c[1] = op)
    IN [i \in DOMAIN calls |-> calls[i][2]]

IsPrefix(a, b) == Len(a) <= Len(b) /\ a = SubSeq(b, 1, Len(a))

Reverse(a) == [i \in DOMAIN a |-> a[Len(a) + 1 - i]]

\* the list without the folder producer when none is constructed
OfConstructed(order) == SelectSeq(order, LAMBDA c : c # "folder" \/ sup_folders)

\* the test of the instant against the windows last saved
SavedInAway(now) ==
    db_away_windows # <<>> /\ _is_within_away_window(now, db_away_windows)

\* C36: after POST /config/away-windows has succeeded, the engine and the
\* input producer test every instant against the saved window list.
C36_PostedWindowsInEffect ==
    (sup_posted /\ sup_eval.by # "none") =>
        sup_eval.in_away = SavedInAway(sup_eval.now)

\* C39: lifespan starts bus, engine, then the producers folder, input,
\* session; at shutdown it stops them in the reverse order, producers first
\* (session, input, folder), then the engine, the bus last; no stop is
\* called before every start was, and no producer is up when the bus is
\* stopped.
C39_ShutdownReversesStartup ==
    /\ IsPrefix(CallsOf("start"), OfConstructed(<<"bus", "engine", "folder", "input", "session">>))
    /\ IsPrefix(CallsOf("stop"), OfConstructed(<<"session", "input", "folder", "engine", "bus">>))
    /\ IsPrefix(CallsOf("stop"), Reverse(CallsOf("start")))
    /\ CallsOf("stop") # <<>> => Len(CallsOf("start")) = Len(OfConstructed(StartupOrder))
    /\ (\E i \in DOMAIN sup_log : sup_log[i] = <<"stop", "bus">>) =>
          \A p \in Producers : ~Up(p)
    /\ sup_pc.phase = "stopped" => \A c \in Range(StartupOrder) : ~Up(c)

\* lifespan has run to its end with a folder producer: five starts, five
\* stops.
C39_Witness ==
    /\ sup_pc.phase = "stopped"
    /\ sup_folders
    /\ Len(sup_log) = 10
    /\ sup_log[6] = <<"stop", "session">>
    /\ sup_log[10] = <<"stop", "bus">>

(***************************************************************************)
(* api/routes.py: broadcast_event and websocket_events                     *)
(*                                                                         *)
(* broadcast_event awaits one send after the other; while it is suspended  *)
(* in a send, clients connect and the handlers of clients that went away   *)
(* take themselves off the list.  `for ws in _ws_clients` keeps an index   *)
(* into the list as it is when the next item is taken.                     *)
(***************************************************************************)
Clients == 1..MaxClients

BcIdle == [pc |-> "idle", ws |-> 0, next |-> 0, dead |-> <<>>, at_start |-> {},
           got |-> {}]

\* `for ws in dead: _ws_clients.remove(ws)`: the list after the removals,
\* and whether a remove raised ValueError (the loop ends there)
RECURSIVE RemoveDead(_, _)
RemoveDead(clients, dead) ==
    IF dead = <<>> THEN [clients |-> clients, raised |-> FALSE]
    ELSE IF Head(dead) \notin Range(clients) THEN [clients |-> clients, raised |-> TRUE]
    ELSE RemoveDead(ListRemove(clients, Head(dead)), Tail(dead))

\* the list iterator of `for ws in _ws_clients` takes its next item from
\* position b.next of the list as it is now, and the send to it starts; past
\* the end of the list the dead clients are removed and the call ends
BcAdvance(b, clients) ==
    IF b.next <= Len(clients)
    THEN [b |-> [b EXCEPT !.pc = "send", !.ws = clients[b.next], !.next = @ + 1],
          clients |-> clients]
    ELSE LET r == RemoveDead(clients, b.dead)
         IN [b |-> [b EXCEPT !.pc = IF r.raised THEN "raised" ELSE "done", !.ws = 0],
             clients |-> r.clients]

\* broadcast_event is called while no other call of it runs
broadcast_event ==
    /\ bc.pc \in {"idle", "done", "raised"}
    /\ LET a == BcAdvance([BcIdle EXCEPT !.next = 1, !.at_start = Range(ws_clients)],
                          ws_clients)
       IN bc' = a.b /\ ws_clients' = a.clients
    /\ UNCHANGED ws_conn
    /\ UNCHANGED notWs

\* `await ws.send_text(payload)` ends: normally, on an open connection only,
\* or by raising, and the client goes on the dead list
SendTextDone(ok) ==
    /\ bc.pc = "send"
    /\ ok => ws_conn[bc.ws] = "open"
    /\ LET b == IF ok THEN [bc EXCEPT !.got = @ \cup {bc.ws}]
                ELSE [bc EXCEPT !.dead = Append(@, bc.ws)]
           a == BcAdvance(b, ws_clients)
       IN bc' = a.b /\ ws_clients' = a.clients
    /\ UNCHANGED ws_conn
    /\ UNCHANGED notWs

\* websocket_events: accept, append to the list, wait in receive_text
websocket_events(c) ==
    /\ ws_conn[c] = "new"
    /\ ws_conn' = [ws_conn EXCEPT ![c] = "open"]
    /\ ws_clients' = Append(ws_clients, c)
    /\ UNCHANGED bc
    /\ UNCHANGED notWs

\* the peer of an open connection goes away
PeerCloses(c) ==
    /\ ws_conn[c] = "open"
    /\ ws_conn' = [ws_conn EXCEPT ![c] = "closed"]
    /\ UNCHANGED <<ws_clients, bc>>
    /\ UNCHANGED notWs

\* websocket_events: receive_text raises WebSocketDisconnect; the finally
\* block takes the client off the list if it is on it
HandlerFinally(c) ==
    /\ ws_conn[c] = "closed"
    /\ ws_conn' = [ws_conn EXCEPT ![c] = "gone"]
    /\ ws_clients' = IF c \in Range(ws_clients) THEN ListRemove(ws_clients, c)
                     ELSE ws_clients
    /\ UNCHANGED bc
    /\ UNCHANGED notWs

InitWs ==
    /\ ws_clients = <<>>
    /\ ws_conn = [c \in Clients |-> "new"]
    /\ bc = BcIdle

NextWs ==
    \/ broadcast_event
    \/ \E ok \in BOOLEAN : SendTextDone(ok)
    \/ \E c \in Clients : websocket_events(c)
    \/ \E c \in Clients : PeerCloses(c)
    \/ \E c \in Clients : HandlerFinally(c)

(***************************************************************************)
(* The WebSocket broadcast: claims                                         *)
(***************************************************************************)
\* C37: broadcast_event does not raise; when it has ended, every client
\* that was connected when it began and is still connected has been sent
\* the frame, unless its send failed, and no client whose send failed is on
\* the client list;
\* whatever clients connect or disconnect during the broadcast.
C37_BroadcastReachesAll ==
    /\ bc.pc # "raised"
    /\ bc.pc = "done" =>
          /\ \A c \in bc.at_start :
                (ws_conn[c] = "open" /\ c \notin Range(bc.dead)) => c \in bc.got
          /\ \A c \in Range(bc.dead) : c \notin Range(ws_clients)

(***************************************************************************)
(* Specifications: one per component, the others at rest                   *)
(***************************************************************************)
EngineAtRest == away_windows = <<>> /\ has_on_alert = FALSE /\ EngineFresh
BusAtRest == maxsize = 0 /\ BusFresh

InitEngineAlone == InitEngine /\ BusAtRest /\ InitDispatch /\ InitSession /\
    InitStore /\ InitWindowAtRest /\ InitMailAtRest /\ InitInputAtRest /\
    InitConfig /\ InitFolderAtRest /\ InitSupervisorAtRest /\ InitWs
SpecEngine == InitEngineAlone /\ [][NextEngine]_vars

InitBusAlone == InitBus /\ EngineAtRest /\ InitDispatch /\ InitSession /\
    InitStore /\ InitWindowAtRest /\ InitMailAtRest /\ InitInputAtRest /\
    InitConfig /\ InitFolderAtRest /\ InitSupervisorAtRest /\ InitWs
SpecBus == InitBusAlone /\ [][NextBus]_vars

InitDispatchAlone == InitDispatch /\ EngineAtRest /\ BusAtRest /\
    InitSession /\ InitStore /\ InitWindowAtRest /\ InitMailAtRest /\
    InitInputAtRest /\ InitConfig /\ InitFolderAtRest /\
    InitSupervisorAtRest /\ InitWs
SpecDispatch == InitDispatchAlone /\ [][NextDispatch]_vars

InitSessionAlone == InitSession /\ EngineAtRest /\ BusAtRest /\
    InitDispatch /\ InitStore /\ InitWindowAtRest /\ InitMailAtRest /\
    InitInputAtRest /\ InitConfig /\ InitFolderAtRest /\
    InitSupervisorAtRest /\ InitWs
SpecSession == InitSessionAlone /\ [][NextSession]_vars

InitStoreAlone == InitStore /\ EngineAtRest /\ BusAtRest /\ InitDispatch /\
    InitSession /\ InitWindowAtRest /\ InitMailAtRest /\ InitInputAtRest /\
    InitConfig /\ InitFolderAtRest /\ InitSupervisorAtRest /\ InitWs
SpecStore == InitStoreAlone /\ [][NextStore]_vars

InitWindowAlone == InitWindow /\ EngineAtRest /\ BusAtRest /\ InitDispatch /\
    InitSession /\ InitStore /\ InitMailAtRest /\ InitInputAtRest /\
    InitConfig /\ InitFolderAtRest /\ InitSupervisorAtRest /\ InitWs
SpecWindow == InitWindowAlone /\ [][NextWindow]_vars

InitMailAlone == InitMail /\ EngineAtRest /\ BusAtRest /\ InitDispatch /\
    InitSession /\ InitStore /\ InitWindowAtRest /\ InitInputAtRest /\
    InitConfig /\ InitFolderAtRest /\ InitSupervisorAtRest /\ InitWs
SpecMail == InitMailAlone /\ [][NextMail]_vars

InitInputAlone == InitInput /\ EngineAtRest /\ BusAtRest /\ InitDispatch /\
    InitSession /\ InitStore /\ InitWindowAtRest /\ InitMailAtRest /\
    InitConfig /\ InitFolderAtRest /\ InitSupervisorAtRest /\ InitWs
SpecInput == InitInputAlone /\ [][NextInput]_vars

InitConfigAlone == InitConfig /\ EngineAtRest /\ BusAtRest /\ InitDispatch /\
    InitSession /\ InitStore /\ InitWindowAtRest /\ InitMailAtRest /\
    InitInputAtRest /\ InitFolderAtRest /\ InitSupervisorAtRest /\ InitWs
SpecConfig == InitConfigAlone /\ [][NextConfig]_vars

InitFolderAlone == InitFolder /\ EngineAtRest /\ BusAtRest /\ InitDispatch /\
    InitSession /\ InitStore /\ InitWindowAtRest /\ InitMailAtRest /\
    InitInputAtRest /\ InitConfig /\ InitSupervisorAtRest /\ InitWs
SpecFolder == InitFolderAlone /\ [][NextFolder]_vars

InitSupervisorAlone == InitSupervisor /\ EngineConstructed /\ BusAtRest /\
    InitDispatch /\ InitSession /\ InitStore /\ InitWindowAtRest /\
    InitMailAtRest /\ InputConstructed /\ InitConfig /\ InitFolderAtRest /\
    InitWs
SpecSupervisor == InitSupervisorAlone /\ [][NextSupervisor]_vars

InitWsAlone == InitWs /\ EngineAtRest /\ BusAtRest /\ InitDispatch /\
    InitSession /\ InitStore /\ InitWindowAtRest /\ InitMailAtRest /\
    InitInputAtRest /\ InitConfig /\ InitFolderAtRest /\ InitSupervisorAtRest
SpecWs == InitWsAlone /\ [][NextWs]_vars

\* a host without the OS oracles (main.py off Windows): a behaviour follows
\* one producer whose oracle is unavailable, the input producer on the
\* always-idle sentinel or the session producer on reads that return
\* nothing, with the other producer at rest
InitDegraded ==
    /\ \/ InitInput /\ idle_oracle = "sentinel" /\ InitSession
       \/ SessionFresh /\ log_oracle = "missing" /\ InitInputAtRest
    /\ EngineAtRest /\ BusAtRest /\ InitDispatch /\ InitStore
    /\ InitWindowAtRest /\ InitMailAtRest /\ InitConfig /\ InitFolderAtRest /\ InitSupervisorAtRest /\ InitWs
NextDegraded ==
    \/ /\ idle_oracle = "sentinel"
       /\ \/ InputStart
          \/ InputStop
          \/ \E now \in InstantSamples : Sample(SentinelIdle, now)
    \/ log_oracle = "missing" /\ NextSession
SpecDegraded == InitDegraded /\ [][NextDegraded]_vars

InitLifespanAlone ==
    /\ InitLifespan
    /\ EngineAtRest /\ InitDispatch /\ InitSession /\ InitStore
    /\ InitWindowAtRest /\ InitMailAtRest /\ InitInputAtRest /\ InitConfig
    /\ InitFolderAtRest /\ InitSupervisorAtRest /\ InitWs
SpecLifespan == InitLifespanAlone /\ [][NextLifespan]_vars

InitTimelineAlone ==
    /\ InitLifespan
    /\ EngineAtRest /\ InitDispatch /\ InitSession /\ InitStore
    /\ InitWindowAtRest /\ InitMailAtRest /\ InitInputAtRest /\ InitConfig
    /\ InitFolderAtRest /\ InitSupervisorAtRest /\ InitWs
SpecTimeline == InitTimelineAlone /\ [][NextTimeline]_vars

InitConcurrentAlone ==
    /\ InitLifespan
    /\ EngineAtRest /\ InitDispatch /\ InitSession /\ InitStore
    /\ InitWindowAtRest /\ InitMailAtRest /\ InitInputAtRest /\ InitConfig
    /\ InitFolderAtRest /\ InitSupervisorAtRest /\ InitWs
SpecConcurrent == InitConcurrentAlone /\ [][NextConcurrent]_vars

SpecLive == InitBusAlone /\ [][NextLive]_vars /\ FairLive

SpecOverlap == InitDispatchAlone /\ [][NextOverlap]_vars

SpecFolderLive == InitFolderAlone /\ [][NextFolder]_vars /\ FairFolder

====
